---- MODULE Spec2Model ----
(***************************************************************************)
(* Model of the device session driver and command execution orchestrator   *)
(* of network-ai-configurator (src/network_tools.py).                      *)
(*                                                                         *)
(* One behaviour is one invocation of execute_commands_ssh: the equipment  *)
(* type is resolved, an SSHClient is constructed and connected, the three  *)
(* phases of SSHClient.execute_commands run, the report is formatted and   *)
(* the client is disconnected.  The device and the runtime are the         *)
(* environment: every command's raw output, every transport fault and      *)
(* every exception raised by a statement of the try body is chosen         *)
(* nondeterministically.                                                   *)
(*                                                                         *)
(* Command texts are compared only for equality by the code, so they are   *)
(* TLA+ strings.  Texts the code looks inside (device output, the device   *)
(* type identifier) are sequences of one-character strings.                *)
(***************************************************************************)
EXTENDS Integers, Sequences, FiniteSets, TLC

(***************************************************************************)
(* Bounds                                                                  *)
(***************************************************************************)
MaxCmds == 3

(***************************************************************************)
(* Text helpers: str.lower() and the `in` substring test                   *)
(***************************************************************************)
UpperLetters ==
  <<"A","B","C","D","E","F","G","H","I","J","K","L","M",
    "N","O","P","Q","R","S","T","U","V","W","X","Y","Z">>

LowerLetters ==
  <<"a","b","c","d","e","f","g","h","i","j","k","l","m",
    "n","o","p","q","r","s","t","u","v","w","x","y","z">>

LowerChar(c) ==
  IF \E i \in DOMAIN UpperLetters : UpperLetters[i] = c
  THEN LowerLetters[CHOOSE i \in DOMAIN UpperLetters : UpperLetters[i] = c]
  ELSE c

Lower(s) == [i \in DOMAIN s |-> LowerChar(s[i])]

\* needle in hay (Python substring test on str)
Contains(hay, needle) ==
  \E k \in 0..(Len(hay) - Len(needle)) :
    \A j \in 1..Len(needle) : hay[k + j] = needle[j]

(***************************************************************************)
(* app/models.py: EquipmentType                                            *)
(***************************************************************************)
CISCO_IOS == <<"c","i","s","c","o","_","i","o","s">>

JUNIPER_JUNOS == <<"j","u","n","i","p","e","r","_","j","u","n","o","s">>

HUAWEI == <<"h","u","a","w","e","i">>

MIKROTIK == <<"m","i","k","r","o","t","i","k">>

EquipmentType == {CISCO_IOS, JUNIPER_JUNOS, HUAWEI, MIKROTIK}

(***************************************************************************)
(* SSHClient._get_config_mode_commands / _get_exit_commands                *)
(***************************************************************************)
GetConfigModeCommands(equipment_type) ==
  CASE equipment_type = CISCO_IOS     -> <<"enable", "configure terminal">>
    [] equipment_type = JUNIPER_JUNOS -> <<"configure">>
    [] equipment_type = HUAWEI        -> <<"system-view">>
    [] equipment_type = MIKROTIK      -> <<>>
    [] OTHER                          -> <<>>

GetExitCommands(equipment_type) ==
  CASE equipment_type = CISCO_IOS     -> <<"end", "exit">>
    [] equipment_type = JUNIPER_JUNOS -> <<"commit", "exit">>
    [] equipment_type = HUAWEI        -> <<"commit", "quit">>
    [] equipment_type = MIKROTIK      -> <<>>
    [] OTHER                          -> <<>>

(***************************************************************************)
(* execute_commands_ssh, lines 328-332: EquipmentType(device_type_str      *)
(* .lower()) with the ValueError fallback                                  *)
(***************************************************************************)
\* variant: the identifier is looked up as given, without lower()
ResolveTypeExact(device_type_str) ==
  IF device_type_str \in EquipmentType THEN device_type_str ELSE CISCO_IOS

ResolveType(device_type_str) ==
  IF Lower(device_type_str) \in EquipmentType
  THEN Lower(device_type_str)
  ELSE CISCO_IOS

ResolveLogs(device_type_str) ==
  IF Lower(device_type_str) \in EquipmentType THEN 0 ELSE 1

(***************************************************************************)
(* SSHClient.execute_command: outcome classification                       *)
(***************************************************************************)
ErrorKeywords ==
  << <<"e","r","r","o","r">>,
     <<"i","n","v","a","l","i","d">>,
     <<"f","a","i","l","e","d">>,
     <<"i","n","c","o","r","r","e","c","t">>,
     <<"%">> >>

\* variant: the keywords are looked for in the output as received
OutputSuccessCaseSensitive(output) ==
  ~ \E i \in DOMAIN ErrorKeywords : Contains(output, ErrorKeywords[i])

\* line 186
OutputSuccess(output) ==
  ~ \E i \in DOMAIN ErrorKeywords : Contains(Lower(output), ErrorKeywords[i])

ErrDetected == "error detected in command output"

ErrTimeout == "command timeout (10.0s)"

ErrNoConnection == "no active connection"

ErrConnectionLost == "connection lost"


(***************************************************************************)
(* Inputs of one invocation and the environment's choices                  *)
(***************************************************************************)
\* device_type_str values: the four identifiers, a mixed-case spelling and
\* an identifier that is not an EquipmentType value
TypeStrs ==
  EquipmentType \cup { <<"H","u","a","w","e","i">>, <<"v","y","o","s">> }

\* caller command texts: one equal to a Cisco entry command and one equal to
\* no entry command
CmdAlphabet == {"configure terminal", "vlan 10"}

CommandLists == UNION {[1..n -> CmdAlphabet] : n \in 0..MaxCmds}

Passwords == {"", "secret"}

\* buffers _read_until_timeout can return: a response ending in a prompt
\* terminator, a rejection and the empty buffer of a silent device
OutPrompt == <<"R","#">>

OutRejected == <<"E","r","r","o","r","#">>

OutEmpty == <<>>

ReadOutputs == {OutPrompt, OutRejected, OutEmpty}

\* what the environment does to one send_command call.  fault is "none",
\* "write" (stdin.write raises, nothing is sent) or "drain" (stdin.drain
\* raises asyncio.TimeoutError after the write)
ReadOutcomes == {[fault |-> "none", out |-> o] : o \in ReadOutputs}

WriteFault == [fault |-> "write", out |-> <<>>]

DrainFault == [fault |-> "drain", out |-> <<>>]

\* the outcomes a batch is run against
Outcomes == ReadOutcomes \cup {WriteFault}

None == "None"

\* execute_commands has not returned / execute_commands_ssh has not finished
NoReport == [kind |-> "none"]

NoValue == [kind |-> "none"]

\* no chat request is being served
NoChat == [pc |-> "none"]

(***************************************************************************)
(* State                                                                   *)
(***************************************************************************)
VARIABLES
  device_type_str,      \* argument of execute_commands_ssh
  commands,             \* argument of execute_commands_ssh
  password,             \* argument of execute_commands_ssh
  key_filename,         \* SSHClient.key_filename: None unless a caller passes one
  pc,                   \* position in execute_commands_ssh / execute_commands
  device_type_enum,     \* resolved equipment type (<<>> before line 329)
  logEvents,            \* number of "unknown type" log lines printed
  connection,           \* SSHClient.connection: None or "conn"
  stdin,                \* SSHClient.stdin: None or "writer"
  stdout,               \* SSHClient.stdout: None or "reader"
  transport,            \* the real SSH connection: "absent", "open", "closed"
  connectCalls,         \* number of asyncssh.connect attempts
  closeCalls,           \* number of connection.close() calls
  disconnectCalls,      \* number of SSHClient.disconnect() calls
  config_mode_commands, \* local of execute_commands
  main_commands,        \* local of execute_commands
  exit_commands,        \* local of execute_commands
  idx,                  \* loop position in the current phase (1-based)
  results,              \* local of execute_commands
  all_success,          \* local of execute_commands
  attempted,            \* history: <<[phase, command]>> of execute_command calls
  written,              \* history: command texts written to stdin
  report,               \* value returned by execute_commands, or None
  pending,              \* exception propagating out of the try body, or None
  retval,               \* value returned / exception raised by execute_commands_ssh
  chat,                 \* request and locals of chat_endpoint (mcp_server.py)
  validations,          \* history: the calls of validate_commands
  channel,              \* data the device has sent that no read has consumed yet
  device,               \* "up", or "hung" once the device has stopped responding
  events,               \* history: the transport operations of one SSHClient
  sessions              \* the invocations of execute_commands_ssh that run concurrently

vars ==
  <<device_type_str, commands, password, key_filename, pc, device_type_enum,
    logEvents, connection, stdin, stdout, transport, connectCalls, closeCalls,
    disconnectCalls, config_mode_commands, main_commands, exit_commands, idx,
    results, all_success, attempted, written, report, pending, retval, chat,
    validations, channel, device, events, sessions>>

inputVars == <<device_type_str, commands, password, key_filename>>

extVars == <<validations, channel, device, events, sessions>>

clientVars == <<connection, stdin, stdout, transport, connectCalls, closeCalls>>

batchVars ==
  <<config_mode_commands, main_commands, exit_commands, idx, results,
    all_success, attempted, written, report>>

\* SSHClient.__init__ (lines 35-44) and the locals before the first statement
Init ==
  /\ device_type_str \in TypeStrs
  /\ commands \in CommandLists
  /\ password \in Passwords
  /\ key_filename = None
  /\ pc = "resolve"
  /\ device_type_enum = <<>>
  /\ logEvents = 0
  /\ connection = None
  /\ stdin = None
  /\ stdout = None
  /\ transport = "absent"
  /\ connectCalls = 0
  /\ closeCalls = 0
  /\ disconnectCalls = 0
  /\ config_mode_commands = <<>>
  /\ main_commands = <<>>
  /\ exit_commands = <<>>
  /\ idx = 1
  /\ results = <<>>
  /\ all_success = TRUE
  /\ attempted = <<>>
  /\ written = <<>>
  /\ report = NoReport
  /\ pending = None
  /\ retval = NoValue
  /\ chat = NoChat
  /\ validations = <<>>
  /\ channel = <<>>
  /\ device = "up"
  /\ events = <<>>
  /\ sessions = <<>>

(***************************************************************************)
(* execute_commands_ssh, lines 327-334                                     *)
(***************************************************************************)
Resolve ==
  /\ pc = "resolve"
  /\ device_type_enum' = ResolveType(device_type_str)
  /\ logEvents' = logEvents + ResolveLogs(device_type_str)
  /\ pc' = "connect"
  /\ UNCHANGED <<chat, extVars, inputVars, clientVars, disconnectCalls, batchVars, pending, retval>>

(***************************************************************************)
(* SSHClient.connect, lines 53-86, and the branch on its result at lines   *)
(* 336 and 360-361.  stage is where the try body stops:                    *)
(*   "creds"    ValueError, neither password nor key (line 67)             *)
(*   "connect"  asyncssh.connect raises (line 69)                          *)
(*   "session"  connection.open_session raises (line 72)                   *)
(*   "warmup"   a statement of lines 78-80 raises                          *)
(*   "ok"       return True (line 82)                                      *)
(***************************************************************************)
ConnectStages(pw) ==
  IF pw = "" THEN {"creds"} ELSE {"connect", "session", "warmup", "ok"}

ConnectionError == "could not connect to device <ip> as user <username>"

\* variant: a failed asyncssh.connect is tried a second time
ConnectRetrying ==
  /\ pc = "connect"
  /\ \E stage \in ConnectStages(password) :
       /\ connectCalls' = IF stage = "creds" THEN connectCalls
                          ELSE IF stage = "connect" THEN connectCalls + 2
                          ELSE connectCalls + 1
       /\ connection' = IF stage \in {"session", "warmup", "ok"} THEN "conn" ELSE connection
       /\ transport' = IF stage \in {"session", "warmup", "ok"} THEN "open" ELSE transport
       /\ stdin' = IF stage \in {"warmup", "ok"} THEN "writer" ELSE stdin
       /\ stdout' = IF stage \in {"warmup", "ok"} THEN "reader" ELSE stdout
       /\ IF stage = "ok"
          THEN /\ pc' = "begin_entry"
               /\ retval' = retval
          ELSE /\ pc' = "raised"
               /\ retval' = [kind |-> "raise", error |-> ConnectionError]
  /\ UNCHANGED <<chat, extVars, inputVars, device_type_enum, logEvents, closeCalls,
                 disconnectCalls, batchVars, pending>>

Connect ==
  /\ pc = "connect"
  /\ \E stage \in ConnectStages(password) :
       /\ connectCalls' = IF stage = "creds" THEN connectCalls ELSE connectCalls + 1
       /\ connection' = IF stage \in {"session", "warmup", "ok"} THEN "conn" ELSE connection
       /\ transport' = IF stage \in {"session", "warmup", "ok"} THEN "open" ELSE transport
       /\ stdin' = IF stage \in {"warmup", "ok"} THEN "writer" ELSE stdin
       /\ stdout' = IF stage \in {"warmup", "ok"} THEN "reader" ELSE stdout
       /\ IF stage = "ok"
          THEN /\ pc' = "begin_entry"
               /\ retval' = retval
          ELSE /\ pc' = "raised"
               /\ retval' = [kind |-> "raise", error |-> ConnectionError]
  /\ UNCHANGED <<chat, extVars, inputVars, device_type_enum, logEvents, closeCalls,
                 disconnectCalls, batchVars, pending>>


(***************************************************************************)
(* SSHClient.send_command + execute_command, lines 149-208, for one        *)
(* command under one environment outcome o                                 *)
(***************************************************************************)
\* variant: line 149 tests the connection object instead of the two streams
ConnectedByTransport == connection # None

\* line 149: send_command goes on only when both streams are set
Connected == stdin # None /\ stdout # None

\* TRUE when stdin.write(command + '\r\n') at line 158 put the command on the wire
CommandWritten(o) == Connected /\ o.fault # "write"

ExecuteCommand(command, o) ==
  IF ~ Connected
  THEN [success |-> FALSE, command |-> command, output |-> <<>>,
        error |-> ErrNoConnection]
  ELSE IF o.fault = "write"
  THEN [success |-> FALSE, command |-> command, output |-> <<>>,
        error |-> ErrConnectionLost]
  ELSE IF o.fault = "drain"
  THEN [success |-> FALSE, command |-> command, output |-> <<>>,
        error |-> ErrTimeout]
  ELSE [success |-> OutputSuccess(o.out), command |-> command,
        output |-> o.out,
        error |-> IF OutputSuccess(o.out) THEN None ELSE ErrDetected]

\* variant: a command whose result is a failure is sent a second time
RecordRetrying(phase, command, o) ==
  /\ results' = Append(results, ExecuteCommand(command, o))
  /\ attempted' = Append(attempted, [phase |-> phase, command |-> command])
  /\ written' = IF ~ CommandWritten(o) THEN written
                ELSE IF ExecuteCommand(command, o).success
                THEN Append(written, command)
                ELSE written \o <<command, command>>

\* the bookkeeping every execute_command call of execute_commands shares:
\* results.append(result) and the two histories
Record(phase, command, o) ==
  /\ results' = Append(results, ExecuteCommand(command, o))
  /\ attempted' = Append(attempted, [phase |-> phase, command |-> command])
  /\ written' = IF CommandWritten(o) THEN Append(written, command) ELSE written

(***************************************************************************)
(* SSHClient.execute_commands, lines 227-282                               *)
(***************************************************************************)
\* lines 232-234
BeginEntry ==
  /\ pc = "begin_entry"
  /\ config_mode_commands' = GetConfigModeCommands(device_type_enum)
  /\ idx' = 1
  /\ pc' = IF GetConfigModeCommands(device_type_enum) = <<>> THEN "check" ELSE "entry"
  /\ UNCHANGED <<chat, extVars, inputVars, device_type_enum, logEvents, clientVars,
                 disconnectCalls, main_commands, exit_commands, results,
                 all_success, attempted, written, report, pending, retval>>

\* variant: the entry loop lacks the break of line 242
EntryContinuesAlways(result) == TRUE

\* line 239-242: the entry loop stops at the first failed result
EntryContinues(result) == result.success

\* lines 236-243, one iteration
EntryCommand ==
  /\ pc = "entry"
  /\ \E o \in Outcomes :
       LET cmd == config_mode_commands[idx]
           result == ExecuteCommand(cmd, o)
       IN /\ Record("entry", cmd, o)
          /\ all_success' = IF result.success THEN all_success ELSE FALSE
          /\ IF EntryContinues(result) /\ idx < Len(config_mode_commands)
             THEN /\ idx' = idx + 1
                  /\ pc' = "entry"
             ELSE /\ idx' = 1
                  /\ pc' = "check"
  /\ UNCHANGED <<chat, extVars, inputVars, device_type_enum, logEvents, clientVars,
                 disconnectCalls, config_mode_commands, main_commands,
                 exit_commands, report, pending, retval>>

\* variant: the caller's list is run unfiltered
FilterNone(cmds, config) == cmds

\* line 247: [cmd for cmd in commands if cmd not in config_mode_commands]
FilterMain(cmds, config) ==
  SelectSeq(cmds, LAMBDA c : ~ \E i \in DOMAIN config : config[i] = c)

\* lines 245-248
CheckEntry ==
  /\ pc = "check"
  /\ IF all_success
     THEN /\ main_commands' = FilterMain(commands, config_mode_commands)
          /\ pc' = IF FilterMain(commands, config_mode_commands) = <<>>
                   THEN "begin_exit" ELSE "main"
     ELSE /\ main_commands' = main_commands
          /\ pc' = "begin_exit"
  /\ idx' = 1
  /\ UNCHANGED <<chat, extVars, inputVars, device_type_enum, logEvents, clientVars,
                 disconnectCalls, config_mode_commands, exit_commands, results,
                 all_success, attempted, written, report, pending, retval>>

\* variant: the main loop never clears the flag
MainAllSuccessKeep(flag, result) == flag

\* lines 253-254
MainAllSuccess(flag, result) == IF result.success THEN flag ELSE FALSE

\* variant: the main loop breaks at the first failed result, as the entry loop does
MainStopsOnFailure(result) == result.success

\* line 250: the main loop goes on to the next command whatever the result
MainContinues(result) == TRUE

\* lines 250-255, one iteration
MainCommand ==
  /\ pc = "main"
  /\ \E o \in Outcomes :
       LET cmd == main_commands[idx]
           result == ExecuteCommand(cmd, o)
       IN /\ Record("main", cmd, o)
          /\ all_success' = MainAllSuccess(all_success, result)
          /\ IF MainContinues(result) /\ idx < Len(main_commands)
             THEN /\ idx' = idx + 1
                  /\ pc' = "main"
             ELSE /\ idx' = 1
                  /\ pc' = "begin_exit"
  /\ UNCHANGED <<chat, extVars, inputVars, device_type_enum, logEvents, clientVars,
                 disconnectCalls, config_mode_commands, main_commands,
                 exit_commands, report, pending, retval>>

\* variant: the exit commands are fetched and run only for a batch that is
\* still successful
BeginExitOnlyOnSuccess ==
  /\ pc = "begin_exit"
  /\ exit_commands' = IF all_success THEN GetExitCommands(device_type_enum) ELSE <<>>
  /\ idx' = 1
  /\ pc' = IF all_success /\ GetExitCommands(device_type_enum) # <<>>
           THEN "exit" ELSE "return"
  /\ UNCHANGED <<chat, extVars, inputVars, device_type_enum, logEvents, clientVars,
                 disconnectCalls, config_mode_commands, main_commands, results,
                 all_success, attempted, written, report, pending, retval>>

\* lines 258-259
BeginExit ==
  /\ pc = "begin_exit"
  /\ exit_commands' = GetExitCommands(device_type_enum)
  /\ idx' = 1
  /\ pc' = IF GetExitCommands(device_type_enum) = <<>> THEN "return" ELSE "exit"
  /\ UNCHANGED <<chat, extVars, inputVars, device_type_enum, logEvents, clientVars,
                 disconnectCalls, config_mode_commands, main_commands, results,
                 all_success, attempted, written, report, pending, retval>>

\* variant: the exit loop clears the flag as the main loop does
ExitAllSuccessTracks(flag, result) == IF result.success THEN flag ELSE FALSE

\* lines 260-263: the exit loop does not touch all_success
ExitAllSuccess(flag, result) == flag

\* variant: the exit loop stores each result over the last recorded one
ExitCommandOverwriting ==
  /\ pc = "exit"
  /\ \E o \in Outcomes :
       LET cmd == exit_commands[idx]
           result == ExecuteCommand(cmd, o)
       IN /\ results' = IF results = <<>> THEN <<result>>
                        ELSE [results EXCEPT ![Len(results)] = result]
          /\ attempted' = Append(attempted, [phase |-> "exit", command |-> cmd])
          /\ written' = IF CommandWritten(o) THEN Append(written, cmd) ELSE written
          /\ all_success' = ExitAllSuccess(all_success, result)
          /\ IF idx < Len(exit_commands)
             THEN /\ idx' = idx + 1
                  /\ pc' = "exit"
             ELSE /\ idx' = 1
                  /\ pc' = "return"
  /\ UNCHANGED <<chat, extVars, inputVars, device_type_enum, logEvents, clientVars,
                 disconnectCalls, config_mode_commands, main_commands,
                 exit_commands, report, pending, retval>>

\* lines 260-263, one iteration
ExitCommand ==
  /\ pc = "exit"
  /\ \E o \in Outcomes :
       LET cmd == exit_commands[idx]
           result == ExecuteCommand(cmd, o)
       IN /\ Record("exit", cmd, o)
          /\ all_success' = ExitAllSuccess(all_success, result)
          /\ IF idx < Len(exit_commands)
             THEN /\ idx' = idx + 1
                  /\ pc' = "exit"
             ELSE /\ idx' = 1
                  /\ pc' = "return"
  /\ UNCHANGED <<chat, extVars, inputVars, device_type_enum, logEvents, clientVars,
                 disconnectCalls, config_mode_commands, main_commands,
                 exit_commands, report, pending, retval>>

\* variant: every result is counted
CountAll(rs) == Len(rs)

\* line 269: sum(1 for r in results if r["success"])
CountSuccessful(rs) == Cardinality({i \in DOMAIN rs : rs[i].success})

\* variant: the report's success is recomputed over all results, exit included
NormalReportAllResults(flag, type, cmds, rs) ==
  [kind |-> "normal", success |-> \A i \in DOMAIN rs : rs[i].success,
   equipment_type |-> type,
   total_commands |-> Len(cmds), successful_commands |-> CountSuccessful(rs),
   results |-> rs, error |-> None]

\* lines 265-271
NormalReport(flag, type, cmds, rs) ==
  [kind |-> "normal", success |-> flag, equipment_type |-> type,
   total_commands |-> Len(cmds), successful_commands |-> CountSuccessful(rs),
   results |-> rs, error |-> None]

\* variant: the handler drops the partial results
ExceptionReportEmpty(type, cmds, rs, e) ==
  [kind |-> "exception", success |-> FALSE, equipment_type |-> type,
   total_commands |-> Len(cmds), successful_commands |-> 0,
   results |-> <<>>, error |-> e]

\* lines 275-282
ExceptionReport(type, cmds, rs, e) ==
  [kind |-> "exception", success |-> FALSE, equipment_type |-> type,
   total_commands |-> Len(cmds), successful_commands |-> 0,
   results |-> rs, error |-> e]

\* variant: the report counts the commands left after the filter of line 247
ReturnReportFiltered ==
  /\ pc = "return"
  /\ report' = NormalReport(all_success, device_type_enum, main_commands, results)
  /\ pc' = "format"
  /\ UNCHANGED <<chat, extVars, inputVars, device_type_enum, logEvents, clientVars,
                 disconnectCalls, config_mode_commands, main_commands,
                 exit_commands, idx, results, all_success, attempted, written,
                 pending, retval>>

\* lines 265-271: the return statement of the normal path
ReturnReport ==
  /\ pc = "return"
  /\ report' = NormalReport(all_success, device_type_enum, commands, results)
  /\ pc' = "format"
  /\ UNCHANGED <<chat, extVars, inputVars, device_type_enum, logEvents, clientVars,
                 disconnectCalls, config_mode_commands, main_commands,
                 exit_commands, idx, results, all_success, attempted, written,
                 pending, retval>>

\* the statements of the try block (lines 230-271) that can raise an
\* Exception: execute_command catches its own, so what is left are the
\* progress prints of lines 234, 240, 248 and 259.  The print of line 240
\* runs after the failed entry result was appended, i.e. at "check".
TryBody == {"begin_entry", "check", "begin_exit"}

UnexpectedError == "unexpected error"

\* lines 273-282.  The handler returns the exception report, or its own print
\* at line 274 raises and the exception leaves execute_commands.
ExceptReport ==
  /\ pc \in TryBody
  /\ \E handlerRaises \in BOOLEAN :
       IF handlerRaises
       THEN /\ report' = report
            /\ pending' = UnexpectedError
            /\ pc' = "finally"
       ELSE /\ report' = ExceptionReport(device_type_enum, commands, results,
                                         UnexpectedError)
            /\ pending' = pending
            /\ pc' = "format"
  /\ UNCHANGED <<chat, extVars, inputVars, device_type_enum, logEvents, clientVars,
                 disconnectCalls, config_mode_commands, main_commands,
                 exit_commands, idx, results, all_success, attempted, written,
                 retval>>


(***************************************************************************)
(* execute_commands_ssh, lines 345-356: the text handed back to the caller *)
(***************************************************************************)
ErrUnknown == "unknown error"

FailedResults(rs) == SelectSeq(rs, LAMBDA r : ~ r.success)

SuccessfulResults(rs) == SelectSeq(rs, LAMBDA r : r.success)

\* variant: a block for every result
BlocksAll(rs) ==
  [i \in DOMAIN rs |-> [command |-> rs[i].command, output |-> rs[i].output]]

\* line 347: one "Command: ... Output: ..." block per successful result
Blocks(rs) ==
  [i \in DOMAIN SuccessfulResults(rs) |->
     [command |-> SuccessfulResults(rs)[i].command,
      output |-> SuccessfulResults(rs)[i].output]]

\* line 354: first_error['output'] or first_error['error']
FirstErrorText(r) ==
  IF r.output # <<>>
  THEN [command |-> r.command, output |-> r.output, error |-> None]
  ELSE [command |-> r.command, output |-> <<>>, error |-> r.error]

\* variant: the last failed result is named instead of the first
FormatResultLastError(rep) ==
  IF rep.success
  THEN [kind |-> "text", blocks |-> Blocks(rep.results)]
  ELSE IF FailedResults(rep.results) # <<>>
  THEN [kind |-> "command_error",
        first |-> FirstErrorText(
                    FailedResults(rep.results)[Len(FailedResults(rep.results))])]
  ELSE [kind |-> "batch_error",
        error |-> IF rep.error = None THEN ErrUnknown ELSE rep.error]

FormatResult(rep) ==
  IF rep.success
  THEN [kind |-> "text", blocks |-> Blocks(rep.results)]
  ELSE IF FailedResults(rep.results) # <<>>
  THEN [kind |-> "command_error",
        first |-> FirstErrorText(FailedResults(rep.results)[1])]
  ELSE [kind |-> "batch_error",
        error |-> IF rep.error = None THEN ErrUnknown ELSE rep.error]

Format ==
  /\ pc = "format"
  /\ retval' = FormatResult(report)
  /\ pc' = "finally"
  /\ UNCHANGED <<chat, extVars, inputVars, device_type_enum, logEvents, clientVars,
                 disconnectCalls, batchVars, pending>>

(***************************************************************************)
(* SSHClient.disconnect, lines 88-98, run by the finally clause of         *)
(* execute_commands_ssh (lines 358-359)                                    *)
(***************************************************************************)
\* variant: close() and wait_closed() run whether or not a connection is held
ClosesTransportAlways(conn) == TRUE

\* lines 92-94: connection.close() and wait_closed() only when a connection is held
ClosesTransport(conn) == conn # None

\* variant: disconnect() follows the try body instead of sitting in a finally
\* clause, so an exception leaving execute_commands skips it
DisconnectUnlessRaising ==
  /\ pc = "finally"
  /\ disconnectCalls' = IF pending = None THEN disconnectCalls + 1 ELSE disconnectCalls
  /\ closeCalls' = IF pending = None /\ ClosesTransport(connection)
                   THEN closeCalls + 1 ELSE closeCalls
  /\ transport' = IF pending = None /\ ClosesTransport(connection)
                  THEN "closed" ELSE transport
  /\ connection' = IF pending = None THEN None ELSE connection
  /\ stdin' = IF pending = None THEN None ELSE stdin
  /\ stdout' = IF pending = None THEN None ELSE stdout
  /\ IF pending = None
     THEN /\ pc' = "returned"
          /\ retval' = retval
     ELSE /\ pc' = "raised"
          /\ retval' = [kind |-> "raise", error |-> pending]
  /\ UNCHANGED <<chat, extVars, inputVars, device_type_enum, logEvents, connectCalls,
                 batchVars, pending>>

Disconnect ==
  /\ pc = "finally"
  /\ disconnectCalls' = disconnectCalls + 1
  /\ closeCalls' = IF ClosesTransport(connection) THEN closeCalls + 1 ELSE closeCalls
  /\ transport' = IF ClosesTransport(connection) THEN "closed" ELSE transport
  /\ connection' = None
  /\ stdin' = None
  /\ stdout' = None
  /\ IF pending = None
     THEN /\ pc' = "returned"
          /\ retval' = retval
     ELSE /\ pc' = "raised"
          /\ retval' = [kind |-> "raise", error |-> pending]
  /\ UNCHANGED <<chat, extVars, inputVars, device_type_enum, logEvents, connectCalls,
                 batchVars, pending>>

(***************************************************************************)
(* Specification                                                           *)
(***************************************************************************)
Next ==
  \/ Resolve
  \/ Connect
  \/ BeginEntry
  \/ EntryCommand
  \/ CheckEntry
  \/ MainCommand
  \/ BeginExit
  \/ ExitCommand
  \/ ReturnReport
  \/ ExceptReport
  \/ Format
  \/ Disconnect

Spec == Init /\ [][Next]_vars

Finished == pc \in {"returned", "raised"}

TypeOK ==
  /\ pc \in {"resolve", "connect", "begin_entry", "entry", "check", "main",
             "begin_exit", "exit", "return", "format", "finally", "returned",
             "raised", "command", "not_called", "validating", "concurrent", "client",
             "s_connect",
             "s_session", "s_warmup", "s_ready", "s_drain", "s_read",
             "s_wait_closed", "s_returned", "s_raised"}
  /\ connection \in {None, "conn"}
  /\ transport \in {"absent", "open", "closed"}
  /\ Len(results) = Len(attempted)


(***************************************************************************)
(* Vocabulary of the properties                                            *)
(***************************************************************************)
\* positions of the execute_command calls of one phase in the history
PhaseIdx(p) == {i \in DOMAIN attempted : attempted[i].phase = p}

FailedIdx(p) == {i \in PhaseIdx(p) : ~ results[i].success}

\* connect() returned True: the try block of line 337 was entered
ConnectSucceeded ==
  /\ pc \notin {"resolve", "connect"}
  /\ ~ (pc = "raised" /\ retval.error = ConnectionError)

\* connect() returned False and line 361 raised
ConnectFailed == pc = "raised" /\ retval.error = ConnectionError

\* every entry command of the profile was attempted and succeeded
EntrySucceeded ==
  /\ pc \notin {"resolve", "connect", "begin_entry", "entry"}
  /\ ConnectSucceeded
  /\ Cardinality(PhaseIdx("entry")) = Len(GetConfigModeCommands(device_type_enum))
  /\ FailedIdx("entry") = {}

\* the main loop of lines 250-255 has been left
MainPhaseOver == pc \in {"begin_exit", "exit", "return"} \/ report.kind = "normal"

\* the commands of one phase, in the order they were attempted
RECURSIVE PhaseCommands(_, _)
PhaseCommands(h, p) ==
  IF h = <<>> THEN <<>>
  ELSE IF Head(h).phase = p
       THEN <<Head(h).command>> \o PhaseCommands(Tail(h), p)
       ELSE PhaseCommands(Tail(h), p)

(***************************************************************************)
(* C1: in every invocation of execute_commands_ssh in which connect()      *)
(* succeeded, SSHClient.disconnect has run exactly once, and has closed    *)
(* the connection exactly once, when the invocation has returned or        *)
(* raised, and has not run before the finally clause.                      *)
(***************************************************************************)
C1_TeardownExactlyOnce ==
  ConnectSucceeded =>
    IF Finished
    THEN disconnectCalls = 1 /\ closeCalls = 1 /\ transport = "closed"
    ELSE disconnectCalls = 0 /\ closeCalls = 0

C1_Witness ==
  /\ pc = "raised"
  /\ pending = UnexpectedError
  /\ results # <<>>
  /\ disconnectCalls = 1

(***************************************************************************)
(* C2: whenever connect() fails, at whatever point, the invocation ends    *)
(* with a connection error and no open transport is left held.             *)
(***************************************************************************)
C2_ConnectFailureReleasesTransport ==
  ConnectFailed => transport # "open" /\ connection = None

(***************************************************************************)
(* C3: the first failed entry command ends the entry phase: every command  *)
(* attempted after it is an exit command (no later entry command, no main  *)
(* command), and the overall success flag is false.                        *)
(***************************************************************************)
C3_EntryFailureAborts ==
  \A f \in FailedIdx("entry") :
    /\ \A j \in DOMAIN attempted : j > f => attempted[j].phase = "exit"
    /\ PhaseIdx("main") = {}
    /\ ~ all_success
    /\ report.kind # "none" => ~ report.success

C3_Witness ==
  /\ report.kind = "normal"
  /\ device_type_enum = CISCO_IOS
  /\ FailedIdx("entry") = {1}
  /\ Len(commands) > 0
  /\ Len(attempted) = 3

(***************************************************************************)
(* C4: on every normal return of execute_commands the exit commands of the *)
(* profile have all been attempted, in profile order, after every entry    *)
(* and main command; after an entry failure the number of commands         *)
(* attempted is the number of entry commands attempted plus the number of  *)
(* exit commands.                                                          *)
(***************************************************************************)
C4_ExitAlwaysAttempted ==
  report.kind = "normal" =>
    /\ PhaseCommands(attempted, "exit") = GetExitCommands(device_type_enum)
    /\ \A i \in PhaseIdx("exit") : \A j \in DOMAIN attempted :
         attempted[j].phase # "exit" => j < i
    /\ FailedIdx("entry") # {} =>
         Len(attempted) = Cardinality(PhaseIdx("entry"))
                            + Len(GetExitCommands(device_type_enum))

C4_Witness ==
  /\ report.kind = "normal"
  /\ FailedIdx("entry") # {}
  /\ Cardinality(PhaseIdx("exit")) = 2
  /\ Len(commands) > 0


(***************************************************************************)
(* C5: when the entry phase fully succeeded, the main phase attempts every *)
(* command it set out to run, in caller order, whether or not an earlier   *)
(* main command failed; and from the moment a main command has failed the  *)
(* overall success flag is false.                                          *)
(***************************************************************************)
C5_MainContinuesOnError ==
  /\ FailedIdx("main") # {} => ~ all_success
  /\ (EntrySucceeded /\ MainPhaseOver) =>
       /\ PhaseCommands(attempted, "main") = main_commands
       /\ Cardinality(PhaseIdx("main"))
            = Cardinality({i \in DOMAIN commands :
                 \A k \in DOMAIN config_mode_commands :
                    config_mode_commands[k] # commands[i]})
  /\ (report.kind = "normal" /\ FailedIdx("main") # {}) => ~ report.success

\* entry succeeded, three main commands, the second failed, the third was attempted
C5_Witness ==
  /\ report.kind = "normal"
  /\ EntrySucceeded
  /\ device_type_enum = CISCO_IOS
  /\ Cardinality(PhaseIdx("main")) = 3
  /\ FailedIdx("main") = {4}
  /\ ~ report.success

(***************************************************************************)
(* C6 (as claimed): when entry succeeds and exactly one main command       *)
(* fails, the report's successful count is the number of main commands     *)
(* that succeeded.                                                         *)
(***************************************************************************)
ExactlyOneMainFailed ==
  /\ report.kind = "normal"
  /\ EntrySucceeded
  /\ Cardinality(FailedIdx("main")) = 1

C6_CountIsMainSuccesses ==
  ExactlyOneMainFailed =>
    report.successful_commands
      = Cardinality(PhaseIdx("main")) - Cardinality(FailedIdx("main"))

(***************************************************************************)
(* C6 (amended): when entry succeeds and exactly one main command fails,   *)
(* the report's successful count is the number of main commands that       *)
(* succeeded plus the number of entry commands (all successful) plus the   *)
(* number of exit commands that succeeded.                                 *)
(***************************************************************************)
C6_CountIsAllPhaseSuccesses ==
  ExactlyOneMainFailed =>
    report.successful_commands
      = (Cardinality(PhaseIdx("main")) - 1)
          + Len(GetConfigModeCommands(device_type_enum))
          + (Cardinality(PhaseIdx("exit")) - Cardinality(FailedIdx("exit")))

\* Cisco profile, three main commands, the second failed: the count is not two
C6_Witness ==
  /\ ExactlyOneMainFailed
  /\ device_type_enum = CISCO_IOS
  /\ Cardinality(PhaseIdx("main")) = 3
  /\ FailedIdx("main") = {4}
  /\ report.successful_commands = 6

(***************************************************************************)
(* C7: every report returned by execute_commands, on the normal and on the *)
(* exception path, has successful_commands equal to the number of results  *)
(* whose success flag is true.                                             *)
(***************************************************************************)
C7_CountMatchesResults ==
  report.kind # "none" =>
    report.successful_commands
      = Cardinality({i \in DOMAIN report.results : report.results[i].success})

(***************************************************************************)
(* C8: the overall success flag of a report is true only if every command  *)
(* attempted in the entry phase and in the main phase succeeded.           *)
(***************************************************************************)
C8_SuccessOnlyIfEntryMainSucceeded ==
  (report.kind # "none" /\ report.success) =>
    \A i \in PhaseIdx("entry") \cup PhaseIdx("main") : report.results[i].success

C8_Witness ==
  /\ report.kind = "normal"
  /\ report.success
  /\ PhaseIdx("entry") # {}
  /\ Cardinality(PhaseIdx("main")) >= 2

(***************************************************************************)
(* C9: a failing exit command is appended to the results but never changes *)
(* the overall success flag: on a normal return the results hold one entry *)
(* per attempted command, exit commands included, and the flag is          *)
(* determined by the entry and main outcomes alone.                        *)
(***************************************************************************)
C9_ExitNeverChangesFlag ==
  report.kind = "normal" =>
    /\ Len(report.results) = Len(attempted)
    /\ \A i \in PhaseIdx("exit") : report.results[i].command = attempted[i].command
    /\ report.success
         = (\A i \in PhaseIdx("entry") \cup PhaseIdx("main") :
              report.results[i].success)

\* an exit command failed and the batch is still reported successful
C9_Witness ==
  /\ report.kind = "normal"
  /\ FailedIdx("exit") # {}
  /\ PhaseIdx("main") # {}
  /\ report.success

(***************************************************************************)
(* C10: a caller command textually identical to an entry command of the    *)
(* profile is never executed in the main phase and is executed at most     *)
(* once in the batch (exactly once, in the entry phase, when the entry     *)
(* phase ran to its end); the other caller commands are executed in the    *)
(* main phase in their relative caller order.                              *)
(***************************************************************************)
IsEntryCommand(c) ==
  \E k \in DOMAIN GetConfigModeCommands(device_type_enum) :
    GetConfigModeCommands(device_type_enum)[k] = c

\* cmds without the entry commands, order kept
RECURSIVE WithoutEntryCommands(_)
WithoutEntryCommands(cmds) ==
  IF cmds = <<>> THEN <<>>
  ELSE IF IsEntryCommand(Head(cmds))
       THEN WithoutEntryCommands(Tail(cmds))
       ELSE <<Head(cmds)>> \o WithoutEntryCommands(Tail(cmds))

C10_EntryDuplicateRunsOnce ==
  /\ \A n \in DOMAIN commands :
       IsEntryCommand(commands[n]) =>
         /\ \A i \in PhaseIdx("main") : attempted[i].command # commands[n]
         /\ Cardinality({i \in DOMAIN attempted :
                           attempted[i].command = commands[n]}) <= 1
         /\ EntrySucceeded =>
              Cardinality({i \in PhaseIdx("entry") :
                             attempted[i].command = commands[n]}) = 1
  /\ (EntrySucceeded /\ MainPhaseOver) =>
       PhaseCommands(attempted, "main") = WithoutEntryCommands(commands)

\* the caller passed an entry command between two other commands
C10_Witness ==
  /\ report.kind = "normal"
  /\ EntrySucceeded
  /\ \E n \in DOMAIN commands : IsEntryCommand(commands[n])
  /\ Len(commands) = 3
  /\ Cardinality(PhaseIdx("main")) = 2


(***************************************************************************)
(* SSHClient._read_until_timeout, lines 100-130.                           *)
(*                                                                         *)
(* Time is counted in ticks of the 0.5 s chunk wait of line 111.  What the *)
(* device does during one read cycle is a script, one event per iteration  *)
(* of the while loop:                                                      *)
(*   [kind |-> "chunk", data |-> d]  stdout.read returns d at once         *)
(*                                   (d = <<>> is the empty read of a      *)
(*                                   closed channel)                       *)
(*   [kind |-> "idle"]               wait_for times out after one tick     *)
(*   [kind |-> "exc"]                stdout.read raises                    *)
(* After the last event of the script the device stays silent.             *)
(***************************************************************************)
Terminators == {"#", ">", "$", ":"}

\* variant: only a terminator at the end of the buffer counts as a prompt
HasPromptAtEnd(output) ==
  output # <<>> /\ output[Len(output)] \in Terminators

\* lines 119 and 123
HasPrompt(output) == \E i \in DOMAIN output : output[i] \in Terminators

\* send_command's default timeout of 10.0 s, in ticks
CommandTimeoutTicks == 20

RECURSIVE ReadLoop(_, _, _, _)
ReadLoop(script, output, elapsed, timeout) ==
  IF elapsed >= timeout
  THEN output
  ELSE IF script = <<>> \/ Head(script).kind = "idle"
  THEN IF HasPrompt(output)
       THEN output
       ELSE ReadLoop(IF script = <<>> THEN <<>> ELSE Tail(script),
                     output, elapsed + 1, timeout)
  ELSE IF Head(script).kind = "exc"
  THEN output
  ELSE IF Head(script).data = <<>>
  THEN ReadLoop(Tail(script), output, elapsed, timeout)
  ELSE IF HasPrompt(output \o Head(script).data)
  THEN output \o Head(script).data
  ELSE ReadLoop(Tail(script), output \o Head(script).data, elapsed, timeout)

\* lines 102-105 and 130
ReadUntilTimeout(reader, script, timeout) ==
  IF reader = None THEN <<>> ELSE ReadLoop(script, <<>>, 0, timeout)

(***************************************************************************)
(* A second specification: execute_command called directly, a bounded      *)
(* number of times, on a client that is connected or was never connected,  *)
(* against every read script and transport fault.                          *)
(***************************************************************************)
MaxCalls == 2

MaxEvents == 2

ChunkPrompt == <<"R","o","u","t","e","r","(","c","o","n","f","i","g",")","#">>

ChunkInvalidInput == <<"%"," ","I","n","v","a","l","i","d"," ","i","n","p","u","t"," ","d","e","t","e","c","t","e","d">>

ChunkErrorUpper == <<"E","R","R","O","R",":">>

ChunkFailed == <<"F","a","i","l","e","d">>

ChunkIncorrect == <<"i","n","c","o","r","r","e","c","t">>

ChunkInvalid == <<"i","n","v","a","l","i","d">>

ChunkOk == <<"o","k">>

ChunkData ==
  {ChunkPrompt, ChunkInvalidInput, ChunkErrorUpper, ChunkFailed,
   ChunkIncorrect, ChunkInvalid, ChunkOk, <<>>}

ReadEvents ==
  {[kind |-> "chunk", data |-> d] : d \in ChunkData}
    \cup {[kind |-> "idle"], [kind |-> "exc"]}

ReadScripts == UNION {[1..n -> ReadEvents] : n \in 0..MaxEvents}

\* what the environment does to one direct execute_command call
DirectOutcomes ==
  {[fault |-> "none", script |-> sc] : sc \in ReadScripts}
    \cup {[fault |-> "write", script |-> <<>>], [fault |-> "drain", script |-> <<>>]}

DirectCommands == {"vlan 10"}

\* the outcome of send_command for ExecuteCommand: the buffer the read cycle
\* of line 162 returns
SendOutcome(d) ==
  [fault |-> d.fault,
   out |-> IF d.fault = "none"
           THEN ReadUntilTimeout(stdout, d.script, CommandTimeoutTicks)
           ELSE <<>>]

InitCommand ==
  /\ device_type_str = CISCO_IOS
  /\ commands = <<>>
  /\ password = "secret"
  /\ key_filename = None
  /\ pc = "command"
  /\ device_type_enum = CISCO_IOS
  /\ logEvents = 0
  /\ \E isConnected \in BOOLEAN :
       /\ connection = IF isConnected THEN "conn" ELSE None
       /\ stdin = IF isConnected THEN "writer" ELSE None
       /\ stdout = IF isConnected THEN "reader" ELSE None
       /\ transport = IF isConnected THEN "open" ELSE "absent"
       /\ connectCalls = IF isConnected THEN 1 ELSE 0
  /\ closeCalls = 0
  /\ disconnectCalls = 0
  /\ config_mode_commands = <<>>
  /\ main_commands = <<>>
  /\ exit_commands = <<>>
  /\ idx = 1
  /\ results = <<>>
  /\ all_success = TRUE
  /\ attempted = <<>>
  /\ written = <<>>
  /\ report = NoReport
  /\ pending = None
  /\ retval = NoValue
  /\ chat = NoChat
  /\ validations = <<>>
  /\ channel = <<>>
  /\ device = "up"
  /\ events = <<>>
  /\ sessions = <<>>

\* one call of execute_command (lines 167-208); the history also keeps what
\* the environment did
DirectCommand ==
  /\ pc = "command"
  /\ Len(results) < MaxCalls
  /\ \E cmd \in DirectCommands, d \in DirectOutcomes :
       /\ results' = Append(results, ExecuteCommand(cmd, SendOutcome(d)))
       /\ attempted' = Append(attempted,
                              [phase |-> "direct", command |-> cmd,
                               fault |-> d.fault, script |-> d.script])
       /\ written' = IF CommandWritten(SendOutcome(d))
                     THEN Append(written, cmd) ELSE written
  /\ UNCHANGED <<chat, extVars, inputVars, pc, device_type_enum, logEvents, clientVars,
                 disconnectCalls, config_mode_commands, main_commands,
                 exit_commands, idx, all_success, report, pending, retval>>

NextCommand == DirectCommand

SpecCommand == InitCommand /\ [][NextCommand]_vars


(***************************************************************************)
(* Vocabulary of the properties of direct execute_command calls            *)
(***************************************************************************)
\* calls in which send_command returned a buffer
ReadCalls == {i \in DOMAIN attempted : Connected /\ attempted[i].fault = "none"}

\* no event of the script brings a prompt terminator and none raises: the
\* read cycle can only end by its overall timeout
NoPromptArrives(script) ==
  \A k \in DOMAIN script :
    /\ script[k].kind # "exc"
    /\ script[k].kind = "chunk" => ~ HasPrompt(script[k].data)

\* stdout.read raises before any prompt terminator has arrived
ReadRaises(script) ==
  \E k \in DOMAIN script :
    /\ script[k].kind = "exc"
    /\ \A j \in 1..(k - 1) :
         script[j].kind = "chunk" => ~ HasPrompt(script[j].data)

(***************************************************************************)
(* C11: when send_command returns a raw output, execute_command reports    *)
(* success exactly when the lower-cased output contains none of error,     *)
(* invalid, failed, incorrect, %; a success has no reason and a failure    *)
(* has the (non-empty) rejection reason.                                   *)
(***************************************************************************)
C11_ClassifiedByKeywords ==
  \A i \in ReadCalls :
    /\ results[i].success
         = (/\ ~ Contains(Lower(results[i].output), <<"e","r","r","o","r">>)
            /\ ~ Contains(Lower(results[i].output), <<"i","n","v","a","l","i","d">>)
            /\ ~ Contains(Lower(results[i].output), <<"f","a","i","l","e","d">>)
            /\ ~ Contains(Lower(results[i].output),
                          <<"i","n","c","o","r","r","e","c","t">>)
            /\ ~ Contains(Lower(results[i].output), <<"%">>))
    /\ results[i].success => results[i].error = None
    /\ ~ results[i].success =>
         results[i].error = ErrDetected /\ results[i].error # ""

\* the two literal cases: "Router(config)#" succeeds, "% Invalid input
\* detected" is rejected
C11_Witness ==
  /\ Len(results) = 2
  /\ ReadCalls = {1, 2}
  /\ results[1].output = ChunkPrompt
  /\ results[1].success
  /\ results[2].output = ChunkInvalidInput
  /\ ~ results[2].success
  /\ results[2].error = ErrDetected

(***************************************************************************)
(* C12: when no prompt terminator arrives within the command timeout while *)
(* a command's output is read, the command is recorded as a failure with   *)
(* the timeout reason.                                                     *)
(***************************************************************************)
C12_TimeoutIsFailure ==
  \A i \in ReadCalls :
    NoPromptArrives(attempted[i].script) =>
      ~ results[i].success /\ results[i].error = ErrTimeout

(***************************************************************************)
(* C13: a transport exception raised while a command is written or while   *)
(* its output is read makes the command's result a failure whose reason is *)
(* the exception's message, and leaves the session connected.              *)
(***************************************************************************)
C13_TransportExceptionIsFailure ==
  \A i \in DOMAIN attempted :
    (Connected /\ (attempted[i].fault # "none" \/ ReadRaises(attempted[i].script))) =>
      /\ ~ results[i].success
      /\ results[i].error \notin {None, ErrDetected}
      /\ Connected


(***************************************************************************)
(* C14: when an exception escapes the try body of execute_commands and the *)
(* handler returns, the report has success false, carries the top-level    *)
(* error and exactly the results collected so far; no command is attempted *)
(* afterwards (the exit phase does not run), and the invocation of         *)
(* execute_commands_ssh still disconnects.                                 *)
(***************************************************************************)
C14_ExceptionAbortsAndReports ==
  report.kind = "exception" =>
    /\ ~ report.success
    /\ report.error = UnexpectedError
    /\ report.results = results
    /\ Len(attempted) = Len(report.results)
    /\ PhaseIdx("exit") = {}
    /\ pc \in {"format", "finally", "returned"}
    /\ Finished => disconnectCalls = 1 /\ transport = "closed"

C14_Witness ==
  /\ report.kind = "exception"
  /\ PhaseIdx("main") # {}
  /\ pc = "returned"
  /\ disconnectCalls = 1

(***************************************************************************)
(* C15: when the session cannot be established, execute_commands_ssh       *)
(* raises the connection error, no entry, main or exit command was         *)
(* attempted or written, and asyncssh.connect was tried at most once;      *)
(* nothing is ever written without a successful connect.                   *)
(***************************************************************************)
C15_ConnectFailureRaisesOnce ==
  /\ connectCalls <= 1
  /\ (pc = "raised" /\ pending = None) => ConnectFailed
  /\ (written # <<>> \/ attempted # <<>>) => ConnectSucceeded
  /\ ConnectFailed =>
       /\ retval = [kind |-> "raise", error |-> ConnectionError]
       /\ attempted = <<>>
       /\ written = <<>>
       /\ results = <<>>
       /\ report.kind = "none"

C15_Witness ==
  /\ ConnectFailed
  /\ connectCalls = 1
  /\ transport = "absent"
  /\ Len(commands) > 0

(***************************************************************************)
(* C17: when the overall success flag is true, the text returned by        *)
(* execute_commands_ssh consists of one block (command, output) per        *)
(* successful result, in execution order, and of no block for a failed     *)
(* result.                                                                 *)
(***************************************************************************)
RECURSIVE SuccessBlocks(_)
SuccessBlocks(rs) ==
  IF rs = <<>> THEN <<>>
  ELSE IF Head(rs).success
       THEN <<[command |-> Head(rs).command, output |-> Head(rs).output]>>
              \o SuccessBlocks(Tail(rs))
       ELSE SuccessBlocks(Tail(rs))

C17_TextIsSuccessfulBlocks ==
  (report.kind # "none" /\ report.success /\ pc \in {"finally", "returned"}) =>
    /\ retval.kind = "text"
    /\ retval.blocks = SuccessBlocks(report.results)

\* a successful batch with a failed exit command: the failed one has no block
C17_Witness ==
  /\ pc = "returned"
  /\ retval.kind = "text"
  /\ Len(retval.blocks) >= 3
  /\ FailedIdx("exit") # {}
  /\ Len(retval.blocks) < Len(results)

(***************************************************************************)
(* C18: when the overall success flag is false, execute_commands_ssh       *)
(* returns one error value: it names the first failed command in execution *)
(* order with its output, or with its failure reason when the output is    *)
(* empty; when no result failed it is the top-level error of the report.   *)
(***************************************************************************)
FirstFailed == CHOOSE i \in DOMAIN report.results :
                 /\ ~ report.results[i].success
                 /\ \A j \in 1..(i - 1) : report.results[j].success

C18_ErrorNamesFirstFailure ==
  (report.kind # "none" /\ ~ report.success /\ pc \in {"finally", "returned"}) =>
    IF \E i \in DOMAIN report.results : ~ report.results[i].success
    THEN /\ retval.kind = "command_error"
         /\ retval.first.command = report.results[FirstFailed].command
         /\ IF report.results[FirstFailed].output # <<>>
            THEN /\ retval.first.output = report.results[FirstFailed].output
                 /\ retval.first.error = None
            ELSE /\ retval.first.output = <<>>
                 /\ retval.first.error = report.results[FirstFailed].error
    ELSE /\ retval.kind = "batch_error"
         /\ retval.error = report.error

\* two different commands failed; the first one, which has no output, is named
C18_Witness ==
  /\ pc = "returned"
  /\ retval.kind = "command_error"
  /\ retval.first.error = ErrConnectionLost
  /\ \E i, j \in DOMAIN results :
       /\ i < j
       /\ ~ results[i].success
       /\ ~ results[j].success
       /\ results[i].command # results[j].command

\* no result failed: the top-level error of the exception report is returned
C18_WitnessTopLevel ==
  /\ pc = "returned"
  /\ retval.kind = "batch_error"
  /\ results # <<>>


(***************************************************************************)
(* A third specification: lines 327-332 of execute_commands_ssh alone,     *)
(* for a larger set of device type identifiers: every upper/lower-case     *)
(* spelling of two EquipmentType values, the other two values as they are, *)
(* and identifiers that are not EquipmentType values in any spelling.      *)
(***************************************************************************)
UpperChar(c) ==
  IF \E i \in DOMAIN LowerLetters : LowerLetters[i] = c
  THEN UpperLetters[CHOOSE i \in DOMAIN LowerLetters : LowerLetters[i] = c]
  ELSE c

RECURSIVE CaseVariants(_)
CaseVariants(s) ==
  IF s = <<>> THEN {<<>>}
  ELSE {<<c>> \o t : c \in {Head(s), UpperChar(Head(s))},
                     t \in CaseVariants(Tail(s))}

UnknownTypeStrs ==
  { <<>>,
    <<"v","y","o","s">>,
    <<"c","i","s","c","o">>,
    <<"c","i","s","c","o","-","i","o","s">>,
    <<"h","u","a","w","e","i"," ">>,
    <<"J","U","N","O","S">> }

ResolveInputs ==
  CaseVariants(HUAWEI) \cup CaseVariants(MIKROTIK)
    \cup {CISCO_IOS, JUNIPER_JUNOS} \cup UnknownTypeStrs

InitResolve ==
  /\ device_type_str \in ResolveInputs
  /\ commands = <<>>
  /\ password = "secret"
  /\ key_filename = None
  /\ pc = "resolve"
  /\ device_type_enum = <<>>
  /\ logEvents = 0
  /\ connection = None
  /\ stdin = None
  /\ stdout = None
  /\ transport = "absent"
  /\ connectCalls = 0
  /\ closeCalls = 0
  /\ disconnectCalls = 0
  /\ config_mode_commands = <<>>
  /\ main_commands = <<>>
  /\ exit_commands = <<>>
  /\ idx = 1
  /\ results = <<>>
  /\ all_success = TRUE
  /\ attempted = <<>>
  /\ written = <<>>
  /\ report = NoReport
  /\ pending = None
  /\ retval = NoValue
  /\ chat = NoChat
  /\ validations = <<>>
  /\ channel = <<>>
  /\ device = "up"
  /\ events = <<>>
  /\ sessions = <<>>

NextResolve == Resolve

SpecResolve == InitResolve /\ [][NextResolve]_vars

\* the type has been resolved (line 334 reached)
Resolved == pc # "resolve"

(***************************************************************************)
(* C16 (as claimed): the identifier's profile is used if the identifier is *)
(* one of cisco_ios, juniper_junos, huawei, mikrotik; every other          *)
(* identifier gets the cisco_ios profile and exactly one log event.        *)
(***************************************************************************)
C16_ExactIdentifierOrDefault ==
  Resolved =>
    IF device_type_str \in {CISCO_IOS, JUNIPER_JUNOS, HUAWEI, MIKROTIK}
    THEN device_type_enum = device_type_str /\ logEvents = 0
    ELSE device_type_enum = CISCO_IOS /\ logEvents = 1

(***************************************************************************)
(* C16 (amended): resolving never fails; the profile used is the one whose *)
(* identifier equals the given identifier up to letter case, with no log   *)
(* event; an identifier that matches none of the four in any letter case   *)
(* gets the cisco_ios profile and exactly one log event.                   *)
(***************************************************************************)
SameIgnoringCase(s, t) ==
  /\ Len(s) = Len(t)
  /\ \A i \in DOMAIN s : s[i] = t[i] \/ s[i] = UpperChar(t[i])

C16_CaseInsensitiveOrDefault ==
  Resolved =>
    /\ device_type_enum \in {CISCO_IOS, JUNIPER_JUNOS, HUAWEI, MIKROTIK}
    /\ \A t \in {CISCO_IOS, JUNIPER_JUNOS, HUAWEI, MIKROTIK} :
         SameIgnoringCase(device_type_str, t) =>
           device_type_enum = t /\ logEvents = 0
    /\ (\A t \in {CISCO_IOS, JUNIPER_JUNOS, HUAWEI, MIKROTIK} :
          ~ SameIgnoringCase(device_type_str, t)) =>
         device_type_enum = CISCO_IOS /\ logEvents = 1

\* a mixed-case spelling resolves to its own profile, silently
C16_Witness ==
  /\ Resolved
  /\ device_type_str = <<"M","i","k","r","o","T","i","k">>
  /\ device_type_enum = MIKROTIK
  /\ logEvents = 0


(***************************************************************************)
(* tools/__init__.py: ConfigurationValidator.validate_commands, lines      *)
(* 315-382.  Command texts are sequences of characters here, because the   *)
(* validator looks inside them.  A pattern is its literal text and whether *)
(* it is wrapped in \b ... \b; none of the patterns of the source has any  *)
(* other regular-expression operator.                                      *)
(***************************************************************************)
Digits == {"0","1","2","3","4","5","6","7","8","9"}

\* \w of the re module, for the characters the model uses
IsWordChar(c) ==
  \/ \E i \in DOMAIN LowerLetters : LowerLetters[i] = c
  \/ \E i \in DOMAIN UpperLetters : UpperLetters[i] = c
  \/ c \in Digits
  \/ c = "_"

WordAt(s, i) == i \in DOMAIN s /\ IsWordChar(s[i])

\* \b between positions i and i + 1 of s
Boundary(s, i) == WordAt(s, i) # WordAt(s, i + 1)

\* re.search(pattern, s)
PatternMatches(pattern, s) ==
  \E k \in 0..(Len(s) - Len(pattern.text)) :
    /\ \A j \in 1..Len(pattern.text) : s[k + j] = pattern.text[j]
    /\ pattern.bounded =>
         Boundary(s, k) /\ Boundary(s, k + Len(pattern.text))

\* lines 333-367
DangerousPatterns(equipment_type) ==
  CASE equipment_type = CISCO_IOS ->
  << [text |-> <<"e","r","a","s","e">>, bounded |-> TRUE, description |-> "erase"],
     [text |-> <<"d","e","l","e","t","e">>, bounded |-> TRUE, description |-> "delete"],
     [text |-> <<"r","e","l","o","a","d">>, bounded |-> TRUE, description |-> "reload"],
     [text |-> <<"f","o","r","m","a","t">>, bounded |-> TRUE, description |-> "format"],
     [text |-> <<"w","r","i","t","e"," ","m","e","m","o","r","y">>, bounded |-> TRUE, description |-> "write memory"],
     [text |-> <<"w","r","i","t","e">>, bounded |-> TRUE, description |-> "write"],
     [text |-> <<"n","o"," ","s","h","u","t","d","o","w","n">>, bounded |-> TRUE, description |-> "no shutdown"],
     [text |-> <<"s","h","u","t","d","o","w","n">>, bounded |-> TRUE, description |-> "shutdown"] >>
    [] equipment_type = JUNIPER_JUNOS ->
  << [text |-> <<"c","o","m","m","i","t">>, bounded |-> TRUE, description |-> "commit"],
     [text |-> <<"r","e","q","u","e","s","t"," ","s","y","s","t","e","m"," ","r","e","b","o","o","t">>, bounded |-> TRUE, description |-> "request system reboot"],
     [text |-> <<"r","e","q","u","e","s","t"," ","s","y","s","t","e","m"," ","h","a","l","t">>, bounded |-> TRUE, description |-> "request system halt"] >>
    [] equipment_type = HUAWEI ->
  << [text |-> <<"s","a","v","e">>, bounded |-> TRUE, description |-> "save"],
     [text |-> <<"r","e","s","e","t">>, bounded |-> TRUE, description |-> "reset"],
     [text |-> <<"r","e","b","o","o","t">>, bounded |-> TRUE, description |-> "reboot"],
     [text |-> <<"s","h","u","t","d","o","w","n">>, bounded |-> TRUE, description |-> "shutdown"] >>
    [] equipment_type = MIKROTIK ->
  << [text |-> <<"/","s","y","s","t","e","m"," ","r","e","b","o","o","t">>, bounded |-> FALSE, description |-> "reboot"],
     [text |-> <<"/","s","y","s","t","e","m"," ","s","h","u","t","d","o","w","n">>, bounded |-> FALSE, description |-> "shutdown"],
     [text |-> <<"/","i","n","t","e","r","f","a","c","e"," ","d","i","s","a","b","l","e">>, bounded |-> FALSE, description |-> "interface disable"] >>
    [] OTHER -> <<>>

\* line 376
SafeKeywords ==
  << <<"s","h","o","w">>,
     <<"d","i","s","p","l","a","y">>,
     <<"g","e","t">>,
     <<"v","i","e","w">>,
     <<"p","r","i","n","t">> >>

\* line 377: any(safe in cmd_lower for safe in safe_keywords)
HasSafeKeyword(cmd_lower) ==
  \E i \in DOMAIN SafeKeywords : Contains(cmd_lower, SafeKeywords[i])

\* line 378: f"WARNING: {description}: {cmd}"
Warning(description, cmd) == [description |-> description, command |-> cmd]

\* lines 372-378, the inner loop for one command
RECURSIVE CommandWarnings(_, _)
CommandWarnings(cmd, patterns) ==
  IF patterns = <<>> THEN <<>>
  ELSE (IF PatternMatches(Head(patterns), Lower(cmd)) /\ ~ HasSafeKeyword(Lower(cmd))
        THEN <<Warning(Head(patterns).description, cmd)>>
        ELSE <<>>)
         \o CommandWarnings(cmd, Tail(patterns))

\* variant: the inner loop stops at the first pattern that gives a warning
RECURSIVE CommandWarningsFirstOnly(_, _)
CommandWarningsFirstOnly(cmd, patterns) ==
  IF patterns = <<>> THEN <<>>
  ELSE IF PatternMatches(Head(patterns), Lower(cmd)) /\ ~ HasSafeKeyword(Lower(cmd))
       THEN <<Warning(Head(patterns).description, cmd)>>
       ELSE CommandWarningsFirstOnly(cmd, Tail(patterns))

\* lines 370-378, the outer loop
RECURSIVE AllWarnings(_, _)
AllWarnings(cmds, patterns) ==
  IF cmds = <<>> THEN <<>>
  ELSE CommandWarnings(Head(cmds), patterns) \o AllWarnings(Tail(cmds), patterns)

\* variant of the outer loop over the first-match-only inner loop
RECURSIVE AllWarningsFirstOnly(_, _)
AllWarningsFirstOnly(cmds, patterns) ==
  IF cmds = <<>> THEN <<>>
  ELSE CommandWarningsFirstOnly(Head(cmds), patterns)
         \o AllWarningsFirstOnly(Tail(cmds), patterns)

\* variant: at most one warning per command
ValidateCommandsFirstOnly(cmds, equipment_type) ==
  [kind |-> "verdict",
   is_safe |-> Len(AllWarningsFirstOnly(cmds, DangerousPatterns(equipment_type))) = 0,
   warnings |-> AllWarningsFirstOnly(cmds, DangerousPatterns(equipment_type)),
   dangerous_commands_count |->
     Len(AllWarningsFirstOnly(cmds, DangerousPatterns(equipment_type)))]

\* lines 330-382
ValidateCommands(cmds, equipment_type) ==
  [kind |-> "verdict",
   is_safe |-> Len(AllWarnings(cmds, DangerousPatterns(equipment_type))) = 0,
   warnings |-> AllWarnings(cmds, DangerousPatterns(equipment_type)),
   dangerous_commands_count |->
     Len(AllWarnings(cmds, DangerousPatterns(equipment_type)))]


(***************************************************************************)
(* mcp_server.py: chat_endpoint, lines 91-229, and the call of             *)
(* execute_tool / execute_commands_ssh it ends in (lines 63-76).           *)
(*                                                                         *)
(* The request and the answers of the external collaborators are inputs:   *)
(* whether the documentation search found anything (rag_found) and the     *)
(* command list that retrieval and template processing leave (processed).  *)
(***************************************************************************)
MaxChatCmds == 2

\* line 17-21: the keywords of CONFIG_KEYWORDS written in Latin letters (the
\* queries of the model are Latin text, which the Cyrillic keywords never match)
ConfigKeywords ==
  << <<"i","n","t","e","r","f","a","c","e">>,
     <<"r","o","u","t","e","r">>,
     <<"h","o","s","t","n","a","m","e">>,
     <<"c","h","a","n","g","e">>,
     <<"s","e","t">>,
     <<"c","o","n","f","i","g","u","r","e">>,
     <<"a","p","p","l","y">>,
     <<"s","h","u","t","d","o","w","n">>,
     <<"n","o"," ","s","h","u","t","d","o","w","n">> >>

\* line 100
NeedsConfigAction(user_query) ==
  \E i \in DOMAIN ConfigKeywords : Contains(Lower(user_query), ConfigKeywords[i])

ChatQueries ==
  { <<"C","o","n","f","i","g","u","r","e"," ","v","l","a","n">>,
    <<"h","e","l","l","o">>,
    <<"r","e","s","e","t">> }

CmdWriteMemory == <<"w","r","i","t","e"," ","m","e","m","o","r","y">>

CmdNoShutdown == <<"n","o"," ","s","h","u","t","d","o","w","n">>

CmdShowReload == <<"S","H","O","W"," ","r","e","l","o","a","d">>

CmdReload == <<"R","e","l","o","a","d">>

CmdHostname == <<"h","o","s","t","n","a","m","e"," ","R","1">>

CmdReloading == <<"r","e","l","o","a","d","i","n","g">>

CmdResetTarget == <<"r","e","s","e","t"," ","t","a","r","g","e","t">>

CmdSystemReboot == <<"/","s","y","s","t","e","m"," ","r","e","b","o","o","t">>

ChatCommands ==
  {CmdWriteMemory, CmdNoShutdown, CmdShowReload, CmdReload,
   CmdHostname, CmdReloading, CmdResetTarget, CmdSystemReboot}

ChatCommandLists == UNION {[1..n -> ChatCommands] : n \in 0..MaxChatCmds}

\* request.device_type: absent (None or ""), two identifiers, a mixed-case one
ChatDeviceTypes == {<<>>, CISCO_IOS, MIKROTIK, <<"H","u","a","w","e","i">>}

\* request.device_ip, request.username, request.password: absent or given
ChatCredentials == {"", "given"}

NoVerdict == [kind |-> "none"]

NoExecRequest == [kind |-> "none"]

ChatRequests ==
  [pc : {"start"}, query : ChatQueries, device_type : ChatDeviceTypes,
   device_ip : ChatCredentials, username : ChatCredentials,
   password : ChatCredentials, rag_found : BOOLEAN,
   processed : ChatCommandLists, suggested_commands : {<<>>},
   validation : {NoVerdict}, warning_context : {FALSE},
   exec_request : {NoExecRequest}, response : {"none"}]

InitChat ==
  /\ chat \in ChatRequests
  /\ validations = <<>>
  /\ channel = <<>>
  /\ device = "up"
  /\ events = <<>>
  /\ sessions = <<>>
  /\ device_type_str = <<>>
  /\ commands = <<>>
  /\ password = ""
  /\ key_filename = None
  /\ pc = "not_called"
  /\ device_type_enum = <<>>
  /\ logEvents = 0
  /\ connection = None
  /\ stdin = None
  /\ stdout = None
  /\ transport = "absent"
  /\ connectCalls = 0
  /\ closeCalls = 0
  /\ disconnectCalls = 0
  /\ config_mode_commands = <<>>
  /\ main_commands = <<>>
  /\ exit_commands = <<>>
  /\ idx = 1
  /\ results = <<>>
  /\ all_success = TRUE
  /\ attempted = <<>>
  /\ written = <<>>
  /\ report = NoReport
  /\ pending = None
  /\ retval = NoValue

coreVars ==
  <<device_type_enum, logEvents, clientVars, disconnectCalls, batchVars,
    pending, retval>>

sshVars == <<coreVars, extVars>>

\* lines 96-169: routing, retrieval and command extraction
ChatRoute ==
  /\ chat.pc = "start"
  /\ chat' =
       IF ~ NeedsConfigAction(chat.query)
       THEN [chat EXCEPT !.pc = "done", !.response = "model_answer"]
       ELSE IF chat.device_type = <<>>
       THEN [chat EXCEPT !.pc = "done", !.response = "need_device_type"]
       ELSE IF ~ chat.rag_found
       THEN [chat EXCEPT !.pc = "done", !.response = "no_commands_found"]
       ELSE IF chat.processed = <<>>
       THEN [chat EXCEPT !.pc = "done", !.response = "commands_not_extracted"]
       ELSE [chat EXCEPT !.pc = "validate", !.suggested_commands = chat.processed]
  /\ UNCHANGED <<inputVars, pc, sshVars>>

\* lines 171-186
ChatValidate ==
  /\ chat.pc = "validate"
  /\ chat' =
       [chat EXCEPT
          !.pc = "credentials",
          !.validation = ValidateCommands(chat.suggested_commands,
                                          ResolveType(chat.device_type)),
          !.warning_context =
             ~ ValidateCommands(chat.suggested_commands,
                                ResolveType(chat.device_type)).is_safe]
  /\ UNCHANGED <<inputVars, pc, sshVars>>

\* variant: the request is stopped only when all three credentials are absent
CredentialsMissingAll(c) == c.device_ip = "" /\ c.username = "" /\ c.password = ""

\* line 188
CredentialsMissing(c) == c.device_ip = "" \/ c.username = "" \/ c.password = ""

\* lines 194-200
ExecRequest(c) ==
  [kind |-> "request", commands |-> c.suggested_commands,
   device_ip |-> c.device_ip, username |-> c.username,
   password |-> c.password, device_type |-> c.device_type]

\* variant: a verdict with warnings stops the request before execution
ChatExecuteOnlyIfSafe ==
  /\ chat.pc = "credentials"
  /\ IF CredentialsMissing(chat) \/ ~ chat.validation.is_safe
     THEN /\ chat' = [chat EXCEPT !.pc = "done", !.response = "need_credentials"]
          /\ UNCHANGED <<inputVars, pc>>
     ELSE /\ chat' = [chat EXCEPT !.pc = "executing",
                                  !.exec_request = ExecRequest(chat)]
          /\ commands' = ExecRequest(chat).commands
          /\ device_type_str' = ExecRequest(chat).device_type
          /\ password' = ExecRequest(chat).password
          /\ UNCHANGED key_filename
          /\ pc' = "resolve"
  /\ UNCHANGED sshVars

\* lines 188-201 and 63-76: the request is answered without execution when a
\* credential is missing; otherwise execute_tool hands the commands to
\* execute_commands_ssh
ChatExecute ==
  /\ chat.pc = "credentials"
  /\ IF CredentialsMissing(chat)
     THEN /\ chat' = [chat EXCEPT !.pc = "done", !.response = "need_credentials"]
          /\ UNCHANGED <<inputVars, pc>>
     ELSE /\ chat' = [chat EXCEPT !.pc = "executing",
                                  !.exec_request = ExecRequest(chat)]
          /\ commands' = ExecRequest(chat).commands
          /\ device_type_str' = ExecRequest(chat).device_type
          /\ password' = ExecRequest(chat).password
          /\ UNCHANGED key_filename
          /\ pc' = "resolve"
  /\ UNCHANGED sshVars

\* lines 203-220: the answer after execute_tool has returned
ChatRespond ==
  /\ chat.pc = "executing"
  /\ \E failed \in BOOLEAN :
       chat' = [chat EXCEPT !.pc = "done",
                            !.response = IF failed THEN "execution_error"
                                         ELSE "model_confirmation"]
  /\ UNCHANGED <<inputVars, pc, sshVars>>

NextChat ==
  \/ ChatRoute
  \/ ChatValidate
  \/ ChatExecute
  \/ ChatRespond

SpecChat == InitChat /\ [][NextChat]_vars


(***************************************************************************)
(* C19: the safety verdict is advisory.  Once the commands have been       *)
(* validated and the request has moved on, execution depends only on the   *)
(* credentials: with all three given, exactly the extracted commands, in   *)
(* their order, are handed to execute_commands_ssh, whether the verdict is *)
(* safe or carries warnings; without them nothing is executed.             *)
(***************************************************************************)
C19_VerdictIsAdvisory ==
  (chat.pc \in {"executing", "done"} /\ chat.validation.kind = "verdict") =>
    IF chat.device_ip # "" /\ chat.username # "" /\ chat.password # ""
    THEN /\ chat.exec_request.kind = "request"
         /\ chat.exec_request.commands = chat.processed
         /\ commands = chat.processed
         /\ pc = "resolve"
    ELSE /\ chat.exec_request.kind = "none"
         /\ pc = "not_called"

\* a verdict with warnings, and the commands are executed all the same
C19_Witness ==
  /\ chat.pc = "executing"
  /\ ~ chat.validation.is_safe
  /\ Len(chat.validation.warnings) >= 2
  /\ commands = chat.processed
  /\ pc = "resolve"

(***************************************************************************)
(* C20: validate_commands emits exactly one warning for each pair          *)
(* (command, dangerous pattern of the profile) such that the pattern       *)
(* matches the lower-cased command and the lower-cased command contains    *)
(* none of show, display, get, view, print; the warnings are ordered by    *)
(* command position and then by pattern position; is_safe is true exactly  *)
(* when there is no warning.                                               *)
(***************************************************************************)
ValidatedPatterns == DangerousPatterns(ResolveType(chat.device_type))

WarningPairs ==
  {p \in (DOMAIN chat.suggested_commands) \X (DOMAIN ValidatedPatterns) :
     /\ PatternMatches(ValidatedPatterns[p[2]], Lower(chat.suggested_commands[p[1]]))
     /\ ~ Contains(Lower(chat.suggested_commands[p[1]]), <<"s","h","o","w">>)
     /\ ~ Contains(Lower(chat.suggested_commands[p[1]]), <<"d","i","s","p","l","a","y">>)
     /\ ~ Contains(Lower(chat.suggested_commands[p[1]]), <<"g","e","t">>)
     /\ ~ Contains(Lower(chat.suggested_commands[p[1]]), <<"v","i","e","w">>)
     /\ ~ Contains(Lower(chat.suggested_commands[p[1]]), <<"p","r","i","n","t">>)}

PairBefore(q, p) == q[1] < p[1] \/ (q[1] = p[1] /\ q[2] < p[2])

C20_OneWarningPerMatch ==
  chat.validation.kind = "verdict" =>
    /\ Len(chat.validation.warnings) = Cardinality(WarningPairs)
    /\ \A p \in WarningPairs :
         chat.validation.warnings[Cardinality({q \in WarningPairs : PairBefore(q, p)}) + 1]
           = [description |-> ValidatedPatterns[p[2]].description,
              command |-> chat.suggested_commands[p[1]]]
    /\ chat.validation.is_safe = (chat.validation.warnings = <<>>)

\* "write memory" matches two Cisco patterns, "Reload" one (in lower case)
C20_Witness ==
  /\ chat.validation.kind = "verdict"
  /\ chat.suggested_commands = <<CmdWriteMemory, CmdReload>>
  /\ Len(chat.validation.warnings) = 3
  /\ ~ chat.validation.is_safe

\* "SHOW reload" and "reset target" carry a read-only marker: no warning
C20_WitnessSuppressed ==
  /\ chat.validation.kind = "verdict"
  /\ chat.suggested_commands = <<CmdShowReload, CmdResetTarget>>
  /\ chat.validation.is_safe

(***************************************************************************)
(* A specification of the validator alone: validate_commands is called a   *)
(* bounded number of times on one list object, for any equipment type.     *)
(* The variable commands is the caller's list.                             *)
(***************************************************************************)
MaxValidations == 2

\* variant: the loop stores cmd_lower back into the list it iterates over
CommandsAfterValidationLowered(cmds) == [i \in DOMAIN cmds |-> Lower(cmds[i])]

\* lines 370-371: the loop only reads the list; cmd.lower() builds a new
\* string and no element of the list is assigned
CommandsAfterValidation(cmds) == cmds

InitValidate ==
  /\ commands \in ChatCommandLists
  /\ device_type_str = <<>>
  /\ password = ""
  /\ key_filename = None
  /\ pc = "validating"
  /\ device_type_enum = <<>>
  /\ logEvents = 0
  /\ connection = None
  /\ stdin = None
  /\ stdout = None
  /\ transport = "absent"
  /\ connectCalls = 0
  /\ closeCalls = 0
  /\ disconnectCalls = 0
  /\ config_mode_commands = <<>>
  /\ main_commands = <<>>
  /\ exit_commands = <<>>
  /\ idx = 1
  /\ results = <<>>
  /\ all_success = TRUE
  /\ attempted = <<>>
  /\ written = <<>>
  /\ report = NoReport
  /\ pending = None
  /\ retval = NoValue
  /\ chat = NoChat
  /\ validations = <<>>
  /\ channel = <<>>
  /\ device = "up"
  /\ events = <<>>
  /\ sessions = <<>>

\* one call of validate_commands (lines 315-382) on the caller's list
ValidateCall ==
  /\ pc = "validating"
  /\ Len(validations) < MaxValidations
  /\ \E equipment_type \in EquipmentType :
       validations' =
         Append(validations,
                [commands |-> commands,
                 equipment_type |-> equipment_type,
                 verdict |-> ValidateCommands(commands, equipment_type),
                 after |-> CommandsAfterValidation(commands)])
  /\ commands' = CommandsAfterValidation(commands)
  /\ UNCHANGED <<chat, device_type_str, password, key_filename, pc, coreVars,
                 channel, device, events, sessions>>

NextValidate == ValidateCall

SpecValidate == InitValidate /\ [][NextValidate]_vars

MaxSessionCalls == 2

MaxEmit == 2

MaxDisconnects == 2

\* line 79: _read_until_timeout(3.0), in ticks of 0.5 s
WarmupTimeoutTicks == 6

\* the timeout argument of execute_command: 0.5 s and the default of 10.0 s
SessionTimeouts == {1, CommandTimeoutTicks}

\* a line of output with a colon in it, as in "ip:1"
ChunkColon == <<"i","p",":","1">>

SessionEvents ==
  {[kind |-> "chunk", data |-> d] : d \in {OutPrompt, ChunkOk, ChunkColon}}
    \cup {[kind |-> "idle"], [kind |-> "exc"]}

SessionScripts == UNION {[1..n -> SessionEvents] : n \in 0..MaxEmit}

\* what arrives after login: nothing, a prompt, a banner line and a prompt
BannerScripts ==
  { <<>>,
    <<[kind |-> "chunk", data |-> OutPrompt]>>,
    <<[kind |-> "chunk", data |-> ChunkColon], [kind |-> "chunk", data |-> OutPrompt]>> }

\* the events of a script that a read cycle (lines 105-130) leaves unconsumed
RECURSIVE ReadRest(_, _, _, _)
ReadRest(script, output, elapsed, timeout) ==
  IF elapsed >= timeout
  THEN script
  ELSE IF script = <<>> \/ Head(script).kind = "idle"
  THEN IF HasPrompt(output)
       THEN script
       ELSE ReadRest(IF script = <<>> THEN <<>> ELSE Tail(script),
                     output, elapsed + 1, timeout)
  ELSE IF Head(script).kind = "exc"
  THEN Tail(script)
  ELSE IF Head(script).data = <<>>
  THEN ReadRest(Tail(script), output, elapsed, timeout)
  ELSE IF HasPrompt(output \o Head(script).data)
  THEN Tail(script)
  ELSE ReadRest(Tail(script), output \o Head(script).data, elapsed, timeout)

\* the data of the chunk events of a script, in order
RECURSIVE Arrived(_)
Arrived(script) ==
  IF script = <<>> THEN <<>>
  ELSE IF Head(script).kind = "chunk"
       THEN Head(script).data \o Arrived(Tail(script))
       ELSE Arrived(Tail(script))

\* line 111: the first stdout.read(1024) returns what is already buffered
Buffered(ch) == IF ch = <<>> THEN <<>> ELSE <<[kind |-> "chunk", data |-> ch]>>

\* line 155: asyncio.sleep(0.5) before the write; nothing is read from stdout
DrainStale(ch) == ch

\* the buffer a read cycle returns and what it leaves in the channel
SessionRead(reader, ch, script, timeout) ==
  [output |-> ReadUntilTimeout(reader, Buffered(ch) \o script, timeout),
   rest |-> IF reader = None THEN ch
            ELSE Arrived(ReadRest(Buffered(ch) \o script, <<>>, 0, timeout))]

\* what a device can send while a read waits: nothing once it has hung
Emits(scripts) == IF device = "hung" THEN {<<>>} ELSE scripts

InitSession ==
  /\ device_type_str = CISCO_IOS
  /\ commands = <<>>
  /\ password \in Passwords
  /\ key_filename = None
  /\ pc = "s_connect"
  /\ device_type_enum = CISCO_IOS
  /\ logEvents = 0
  /\ connection = None
  /\ stdin = None
  /\ stdout = None
  /\ transport = "absent"
  /\ connectCalls = 0
  /\ closeCalls = 0
  /\ disconnectCalls = 0
  /\ config_mode_commands = <<>>
  /\ main_commands = <<>>
  /\ exit_commands = <<>>
  /\ idx = 1
  /\ results = <<>>
  /\ all_success = TRUE
  /\ attempted = <<>>
  /\ written = <<>>
  /\ report = NoReport
  /\ pending = None
  /\ retval = NoValue
  /\ chat = NoChat
  /\ validations = <<>>
  /\ channel = <<>>
  /\ device = "up"
  /\ events = <<>>
  /\ sessions = <<>>

sessionFrame ==
  <<chat, inputVars, device_type_enum, logEvents, config_mode_commands,
    main_commands, exit_commands, idx, all_success, report, pending,
    validations, device, sessions>>

\* connect() returned False: line 361 raises
ConnectRefused ==
  /\ pc' = "s_raised"
  /\ retval' = [kind |-> "raise", error |-> ConnectionError]

\* lines 53-69: the credentials and asyncssh.connect, which connect_timeout bounds
SConnectTransport ==
  /\ pc = "s_connect"
  /\ IF password = ""
     THEN /\ ConnectRefused
          /\ UNCHANGED <<connection, transport, connectCalls, events>>
     ELSE \E ok \in (IF device = "hung" THEN {FALSE} ELSE BOOLEAN) :
            /\ connectCalls' = connectCalls + 1
            /\ IF ok
               THEN /\ connection' = "conn"
                    /\ transport' = "open"
                    /\ events' = Append(events, "transport")
                    /\ pc' = "s_session"
                    /\ retval' = retval
               ELSE /\ ConnectRefused
                    /\ UNCHANGED <<connection, transport, events>>
  /\ UNCHANGED <<sessionFrame, stdin, stdout, closeCalls, disconnectCalls,
                 results, attempted, written, channel>>

\* variant: connect() returns True as soon as the channel is open, without
\* the warm-up sleep and read
SOpenSessionReady ==
  /\ pc = "s_session"
  /\ device = "up"
  /\ \E ok \in BOOLEAN :
       IF ok
       THEN /\ stdin' = "writer"
            /\ stdout' = "reader"
            /\ events' = events \o <<"session", "connected">>
            /\ pc' = "s_ready"
            /\ retval' = retval
       ELSE /\ ConnectRefused
            /\ UNCHANGED <<stdin, stdout, events>>
  /\ UNCHANGED <<sessionFrame, connection, transport, connectCalls, closeCalls,
                 disconnectCalls, results, attempted, written, channel>>

\* line 72: connection.open_session, awaited without a timeout
SOpenSession ==
  /\ pc = "s_session"
  /\ device = "up"
  /\ \E ok \in BOOLEAN :
       IF ok
       THEN /\ stdin' = "writer"
            /\ stdout' = "reader"
            /\ events' = Append(events, "session")
            /\ pc' = "s_warmup"
            /\ retval' = retval
       ELSE /\ ConnectRefused
            /\ UNCHANGED <<stdin, stdout, events>>
  /\ UNCHANGED <<sessionFrame, connection, transport, connectCalls, closeCalls,
                 disconnectCalls, results, attempted, written, channel>>

\* lines 78-86: the warm-up sleep and read, the print, and return True
SWarmUp ==
  /\ pc = "s_warmup"
  /\ \E banner \in Emits(BannerScripts), printRaises \in BOOLEAN :
       /\ channel' = SessionRead(stdout, channel, banner, WarmupTimeoutTicks).rest
       /\ IF printRaises
          THEN /\ events' = Append(events, "warmup")
               /\ ConnectRefused
          ELSE /\ events' = events \o <<"warmup", "connected">>
               /\ pc' = "s_ready"
               /\ retval' = retval
  /\ UNCHANGED <<sessionFrame, clientVars, disconnectCalls, results, attempted,
                 written>>

\* the entry a send_command call leaves in the history
CallRecord(command, fault, script, timeout, buffered, rest) ==
  [phase |-> "direct", command |-> command, fault |-> fault, script |-> script,
   timeout |-> timeout, buffered |-> buffered, rest |-> rest]

\* variant: the next command is written while the previous call still waits
\* for its drain or its output (commands run as concurrent tasks)
SSendWritePipelined ==
  /\ pc \in {"s_ready", "s_drain", "s_read"}
  /\ Len(results) < MaxSessionCalls
  /\ \E cmd \in DirectCommands, writeRaises \in BOOLEAN :
       IF writeRaises
       THEN /\ results' = Append(results, ExecuteCommand(cmd, WriteFault))
            /\ attempted' = Append(attempted,
                                   CallRecord(cmd, "write", <<>>, 0, channel, channel))
            /\ events' = Append(events, "raised")
            /\ UNCHANGED written
            /\ pc' = "s_ready"
       ELSE /\ written' = Append(written, cmd)
            /\ events' = Append(events, "write")
            /\ pc' = "s_drain"
            /\ UNCHANGED <<results, attempted>>
  /\ channel' = DrainStale(channel)
  /\ UNCHANGED <<sessionFrame, clientVars, disconnectCalls, retval>>

\* lines 149-158, and 202-208 when stdin.write raises
SSendWrite ==
  /\ pc = "s_ready"
  /\ Len(results) < MaxSessionCalls
  /\ \E cmd \in DirectCommands, writeRaises \in BOOLEAN :
       IF writeRaises
       THEN /\ results' = Append(results, ExecuteCommand(cmd, WriteFault))
            /\ attempted' = Append(attempted,
                                   CallRecord(cmd, "write", <<>>, 0, channel, channel))
            /\ events' = Append(events, "raised")
            /\ UNCHANGED <<written, pc>>
       ELSE /\ written' = Append(written, cmd)
            /\ events' = Append(events, "write")
            /\ pc' = "s_drain"
            /\ UNCHANGED <<results, attempted>>
  /\ channel' = DrainStale(channel)
  /\ UNCHANGED <<sessionFrame, clientVars, disconnectCalls, retval>>

\* line 159: stdin.drain, awaited without a timeout
SSendDrain ==
  /\ pc = "s_drain"
  /\ device = "up"
  /\ \E drainRaises \in BOOLEAN :
       IF drainRaises
       THEN /\ results' = Append(results,
                                 ExecuteCommand(written[Len(written)], DrainFault))
            /\ attempted' = Append(attempted,
                                   CallRecord(written[Len(written)], "drain", <<>>,
                                              0, channel, channel))
            /\ events' = Append(events, "raised")
            /\ pc' = "s_ready"
       ELSE /\ events' = Append(events, "drained")
            /\ pc' = "s_read"
            /\ UNCHANGED <<results, attempted>>
  /\ UNCHANGED <<sessionFrame, clientVars, disconnectCalls, written, channel,
                 retval>>

\* lines 162-165 and 186-193: the read cycle and the classification
SSendRead ==
  /\ pc = "s_read"
  /\ \E script \in Emits(SessionScripts), timeout \in SessionTimeouts :
       /\ results' =
            Append(results,
                   ExecuteCommand(written[Len(written)],
                                  [fault |-> "none",
                                   out |-> SessionRead(stdout, channel, script,
                                                       timeout).output]))
       /\ attempted' =
            Append(attempted,
                   CallRecord(written[Len(written)], "none", script, timeout,
                              channel,
                              SessionRead(stdout, channel, script, timeout).rest))
       /\ channel' = SessionRead(stdout, channel, script, timeout).rest
  /\ events' = Append(events, "read")
  /\ pc' = "s_ready"
  /\ UNCHANGED <<sessionFrame, clientVars, disconnectCalls, written, retval>>

\* lines 90-93 of disconnect(): called by the finally clause (line 359), and
\* again by a caller that holds the client
SClose ==
  /\ \/ pc = "s_ready"
     \/ pc = "s_returned" /\ disconnectCalls < MaxDisconnects
  /\ disconnectCalls' = disconnectCalls + 1
  /\ closeCalls' = IF ClosesTransport(connection) THEN closeCalls + 1 ELSE closeCalls
  /\ transport' = IF ClosesTransport(connection) THEN "closed" ELSE transport
  /\ events' = events
               \o (IF stdin # None THEN <<"stdin.close">> ELSE <<>>)
               \o (IF ClosesTransport(connection) THEN <<"close">> ELSE <<>>)
  /\ pc' = "s_wait_closed"
  /\ UNCHANGED <<sessionFrame, connection, stdin, stdout, connectCalls, results,
                 attempted, written, channel, retval>>

\* lines 94-98: connection.wait_closed, awaited without a timeout when a
\* connection is held, and the four assignments
SWaitClosed ==
  /\ pc = "s_wait_closed"
  /\ ClosesTransport(connection) => device = "up"
  /\ \E waitRaises \in (IF ClosesTransport(connection) THEN BOOLEAN ELSE {FALSE}) :
       IF waitRaises
       THEN /\ pc' = "s_raised"
            /\ retval' = [kind |-> "raise", error |-> ErrConnectionLost]
            /\ UNCHANGED <<connection, stdin, stdout, events>>
       ELSE /\ connection' = None
            /\ stdin' = None
            /\ stdout' = None
            /\ events' = Append(events, "disconnected")
            /\ pc' = "s_returned"
            /\ retval' = retval
  /\ UNCHANGED <<sessionFrame, transport, connectCalls, closeCalls,
                 disconnectCalls, results, attempted, written, channel>>

\* the device stops responding
DeviceHangs ==
  /\ device = "up"
  /\ pc \in {"s_connect", "s_session", "s_warmup", "s_ready", "s_drain",
             "s_read", "s_wait_closed"}
  /\ device' = "hung"
  /\ UNCHANGED <<chat, inputVars, pc, coreVars, validations, channel, events,
                 sessions>>

\* the statements of the program
SessionStep ==
  \/ SConnectTransport
  \/ SOpenSession
  \/ SWarmUp
  \/ SSendWrite
  \/ SSendDrain
  \/ SSendRead
  \/ SClose
  \/ SWaitClosed

NextSession == SessionStep \/ DeviceHangs

SpecSession == InitSession /\ [][NextSession]_vars

\* the same program under a scheduler that runs every statement that can run
SpecSessionLive == SpecSession /\ WF_vars(SessionStep)

\* execute_commands_ssh has returned or raised
SessionFinished == pc \in {"s_returned", "s_raised"}

(***************************************************************************)
(* C22: every invocation of execute_commands_ssh eventually returns or     *)
(* raises, even when the device stops responding at any step, because      *)
(* every blocking operation of the session is bounded by a timeout.        *)
(***************************************************************************)
C22_EveryInvocationReturns == <>SessionFinished

(***************************************************************************)
(* Vocabulary of the properties of the session                             *)
(***************************************************************************)
\* positions of the history at which a command was put on the wire
WriteEvents == {j \in DOMAIN events : events[j] = "write"}

\* positions at which a send_command call ended: its read cycle returned,
\* or the call was ended by an exception
CallEndEvents == {j \in DOMAIN events : events[j] \in {"read", "raised"}}

(***************************************************************************)
(* C24: commands are strictly sequential within a session.  A command is   *)
(* written only after the call of the previously written command has       *)
(* ended (its read cycle has returned, or an exception has ended the call  *)
(* before the read), so at most one written command is waiting for its     *)
(* output at any time.                                                     *)
(***************************************************************************)
C24_OneCommandOutstanding ==
  /\ \A i, j \in WriteEvents :
       i < j => \E k \in CallEndEvents : i < k /\ k < j
  /\ Cardinality({i \in WriteEvents : \A k \in CallEndEvents : k < i})
       = (IF pc \in {"s_drain", "s_read"} THEN 1 ELSE 0)

\* two commands, each written after the read cycle of the one before
C24_Witness ==
  /\ Len(written) = 2
  /\ Len(results) = 2
  /\ \E p \in DOMAIN events :
       /\ p + 5 \in DOMAIN events
       /\ events[p] = "write" /\ events[p + 1] = "drained" /\ events[p + 2] = "read"
       /\ events[p + 3] = "write" /\ events[p + 4] = "drained"
       /\ events[p + 5] = "read"

\* the calls of the history whose send_command reached the read cycle
SessionReadCalls == {i \in DOMAIN attempted : attempted[i].fault = "none"}

\* what the read cycle of call i had before it: the data already buffered
\* when it started, then what the device did while it waited
CycleInput(i) ==
  (IF attempted[i].buffered = <<>> THEN <<>>
   ELSE <<[kind |-> "chunk", data |-> attempted[i].buffered]>>)
    \o attempted[i].script

NoReadRaises(e) == \A k \in DOMAIN e : e[k].kind # "exc"

TerminatorIn(s) == \E c \in DOMAIN s : s[c] = "#" \/ s[c] = ">" \/ s[c] = "$" \/ s[c] = ":"

\* the data of the first k events
DataUpTo(e, k) == Arrived(SubSeq(e, 1, k))

\* event k happens before the overall timeout of t ticks has elapsed
InTime(e, t, k) == Cardinality({m \in 1..(k - 1) : e[m].kind = "idle"}) < t

\* the chunks with which the timely data contains a terminator
Terminating(e, t) ==
  {k \in DOMAIN e : /\ e[k].kind = "chunk"
                    /\ InTime(e, t, k)
                    /\ TerminatorIn(DataUpTo(e, k))}

\* the last event that happens before the timeout (0 if there is none)
LastInTime(e, t) ==
  IF \E k \in DOMAIN e : InTime(e, t, k)
  THEN CHOOSE k \in DOMAIN e :
         InTime(e, t, k) /\ \A m \in DOMAIN e : InTime(e, t, m) => m <= k
  ELSE 0

C26_OutputIsFreshData ==
  \A i \in SessionReadCalls :
    results[i].output \o attempted[i].rest = Arrived(attempted[i].script)

(***************************************************************************)
(* C27: connect() returns True only after asyncssh.connect has returned    *)
(* (transport established and authenticated), the interactive channel has  *)
(* been opened and the warm-up read has completed, in this order; and no   *)
(* command is written before connect() has returned True.                  *)
(***************************************************************************)
C27_ReadyAfterWarmup ==
  /\ \A j \in DOMAIN events :
       events[j] = "connected" =>
         /\ j = 4
         /\ SubSeq(events, 1, 3) = <<"transport", "session", "warmup">>
  /\ \A j \in WriteEvents : \E c \in 1..(j - 1) : events[c] = "connected"
  /\ pc \in {"s_ready", "s_drain", "s_read"} =>
       /\ \E c \in DOMAIN events : events[c] = "connected"
       /\ connection # None /\ stdin # None /\ stdout # None
       /\ transport = "open"
  /\ (\A c \in DOMAIN events : events[c] # "connected") =>
       written = <<>> /\ results = <<>>

\* a command is written on a session that went through all of connect()
C27_Witness ==
  /\ Len(events) >= 5
  /\ SubSeq(events, 1, 5) = <<"transport", "session", "warmup", "connected", "write">>
  /\ written = <<"vlan 10">>

\* positions of the history at which a disconnect() returned normally
DisconnectedEvents == {j \in DOMAIN events : events[j] = "disconnected"}

(***************************************************************************)
(* C28: disconnect() is idempotent.  Once a disconnect() has returned      *)
(* normally the connection and the stream handles are absent, and every    *)
(* later disconnect() makes no close call (neither stdin.close nor         *)
(* connection.close) and leaves the client as it was: handles absent, the  *)
(* connection closed once.                                                 *)
(***************************************************************************)
C28_DisconnectIdempotent ==
  DisconnectedEvents # {} =>
    /\ connection = None /\ stdin = None /\ stdout = None
    /\ closeCalls = 1
    /\ transport = "closed"
    /\ \A d \in DisconnectedEvents, j \in DOMAIN events :
         j > d => events[j] \notin {"close", "stdin.close"}
    /\ pc \in {"s_returned", "s_wait_closed"}
    /\ Cardinality(DisconnectedEvents) =
         (IF pc = "s_returned" THEN disconnectCalls ELSE disconnectCalls - 1)

\* disconnect() has run twice on a session that executed a command
C28_Witness ==
  /\ pc = "s_returned"
  /\ disconnectCalls = 2
  /\ Cardinality(DisconnectedEvents) = 2
  /\ closeCalls = 1
  /\ written # <<>>

\* s is an initial segment of t
IsPrefix(s, t) == Len(s) <= Len(t) /\ s = SubSeq(t, 1, Len(s))

\* the commands of the attempts whose write did not fail, in order
RECURSIVE WireCommands(_, _)
WireCommands(h, rs) ==
  IF h = <<>> THEN <<>>
  ELSE (IF Head(rs).error \in {ErrConnectionLost, ErrNoConnection}
        THEN <<>> ELSE <<Head(h).command>>)
         \o WireCommands(Tail(h), Tail(rs))

(***************************************************************************)
(* C29: nothing is retried.  Within one batch every entry command of the   *)
(* profile, every retained occurrence of a caller command and every exit   *)
(* command is attempted at most once, and each attempt puts its command on *)
(* the wire at most once, whether the result is a success, a rejection, an *)
(* empty output after the timeout or an exception.                         *)
(***************************************************************************)
C29_NoRetry ==
  /\ IsPrefix(PhaseCommands(attempted, "entry"),
              GetConfigModeCommands(device_type_enum))
  /\ IsPrefix(PhaseCommands(attempted, "main"), WithoutEntryCommands(commands))
  /\ IsPrefix(PhaseCommands(attempted, "exit"), GetExitCommands(device_type_enum))
  /\ written = WireCommands(attempted, results)
  /\ Len(written) <= Len(attempted)

\* a batch with a rejected command, a silent one and one whose write raised
C29_Witness ==
  /\ report.kind = "normal"
  /\ \E i, j, k \in PhaseIdx("main") :
       /\ results[i].output = OutRejected
       /\ results[j].output = OutEmpty /\ results[j].success
       /\ results[k].error = ErrConnectionLost
  /\ Len(written) = Len(attempted) - 1

\* the place of a phase in the order of execution
PhaseRank(p) == CASE p = "entry" -> 1 [] p = "main" -> 2 [] p = "exit" -> 3

\* the list as it stands: one result per attempt, in the order of the attempts
ResultsInExecutionOrder ==
  /\ Len(results) = Len(attempted)
  /\ \A i \in DOMAIN results : results[i].command = attempted[i].command
  /\ \A i, j \in DOMAIN attempted :
       i < j => PhaseRank(attempted[i].phase) <= PhaseRank(attempted[j].phase)
  /\ IsPrefix(PhaseCommands(attempted, "entry"),
              GetConfigModeCommands(device_type_enum))
  /\ IsPrefix(PhaseCommands(attempted, "main"), WithoutEntryCommands(commands))
  /\ IsPrefix(PhaseCommands(attempted, "exit"), GetExitCommands(device_type_enum))
  /\ report.kind # "none" =>
       /\ report.results = results
       /\ Len(report.results) = Len(attempted)
  /\ report.kind = "normal" =>
       /\ EntrySucceeded =>
            PhaseCommands(attempted, "main") = WithoutEntryCommands(commands)
       /\ PhaseCommands(attempted, "exit") = GetExitCommands(device_type_enum)

(***************************************************************************)
(* C30: the results list is append-only and in execution order.  At every  *)
(* moment it holds one result per attempted command: the attempted prefix  *)
(* of the profile's entry commands, then the retained caller commands in   *)
(* caller order, then the profile's exit commands; the report carries that *)
(* list; and no step changes or removes a result already recorded.         *)
(***************************************************************************)
C30_ResultsAppendOnly ==
  /\ []ResultsInExecutionOrder
  /\ [][IsPrefix(results, results') /\ Len(results') <= Len(results) + 1]_vars

\* a Cisco batch of three caller commands, one of them an entry command:
\* two entry, two main and two exit results
C30_Witness ==
  /\ report.kind = "normal"
  /\ device_type_enum = CISCO_IOS
  /\ Len(commands) = 3
  /\ Len(report.results) = 6
  /\ Cardinality(PhaseIdx("main")) = 2
  /\ FailedIdx("main") # {}

(***************************************************************************)
(* A specification of concurrent invocations of execute_commands_ssh       *)
(* (lines 323-361) on one event loop.  Each invocation is a coroutine; the *)
(* invocations interleave at their awaits: connect(), each execute_command *)
(* and disconnect().  SSHClient objects are identified by a number; the    *)
(* variable sessions holds the invocations' locals (inv) and the fields of *)
(* the SSHClient objects (clients).  Each invocation talks to a device of  *)
(* its own, whose answers are chosen when they are read.                   *)
(***************************************************************************)
MaxInvocations == 2

Invocations == 1..MaxInvocations

ConcurrentTypes == {MIKROTIK, HUAWEI}

ConcurrentCommandLists == {<<"vlan 10">>}

ConcurrentOutputs == {OutPrompt, OutRejected}

\* variant: one module-level SSHClient object serves every invocation
NewClientShared(i) == 1

\* line 334: client = SSHClient(...), a new object in every invocation
NewClient(i) == i

\* lines 41-43, and 95-97 after disconnect()
FreshClient == [connection |-> None, stdin |-> None, stdout |-> None]

\* lines 69-75 after a successful connect()
ConnectedClient == [connection |-> "conn", stdin |-> "writer", stdout |-> "reader"]

\* lines 149-150 and 183-208 on a given SSHClient object
ExecuteCommandOf(client, command, out) ==
  IF client.stdin = None \/ client.stdout = None
  THEN [success |-> FALSE, command |-> command, output |-> <<>>,
        error |-> ErrNoConnection]
  ELSE [success |-> OutputSuccess(out), command |-> command, output |-> out,
        error |-> IF OutputSuccess(out) THEN None ELSE ErrDetected]

\* lines 232-263: the commands of the three loops, one after the other
Plan(type, cmds) ==
  GetConfigModeCommands(type)
    \o FilterMain(cmds, GetConfigModeCommands(type))
    \o GetExitCommands(type)

\* lines 239-245 and 258: a failed entry command skips to the exit commands
NextStep(type, cmds, k, result) ==
  IF k <= Len(GetConfigModeCommands(type)) /\ ~ result.success
  THEN Len(GetConfigModeCommands(type))
         + Len(FilterMain(cmds, GetConfigModeCommands(type))) + 1
  ELSE k + 1

InitConcurrent ==
  /\ \E types \in [Invocations -> ConcurrentTypes],
        lists \in [Invocations -> ConcurrentCommandLists] :
       sessions =
         [inv |-> [i \in Invocations |->
                     [pc |-> "new", type |-> types[i], cmds |-> lists[i],
                      client |-> 0, step |-> 1, results |-> <<>>,
                      outs |-> <<>>]],
          clients |-> [c \in Invocations |-> FreshClient]]
  /\ device_type_str = <<>>
  /\ commands = <<>>
  /\ password = "secret"
  /\ key_filename = None
  /\ pc = "concurrent"
  /\ device_type_enum = <<>>
  /\ logEvents = 0
  /\ connection = None
  /\ stdin = None
  /\ stdout = None
  /\ transport = "absent"
  /\ connectCalls = 0
  /\ closeCalls = 0
  /\ disconnectCalls = 0
  /\ config_mode_commands = <<>>
  /\ main_commands = <<>>
  /\ exit_commands = <<>>
  /\ idx = 1
  /\ results = <<>>
  /\ all_success = TRUE
  /\ attempted = <<>>
  /\ written = <<>>
  /\ report = NoReport
  /\ pending = None
  /\ retval = NoValue
  /\ chat = NoChat
  /\ validations = <<>>
  /\ channel = <<>>
  /\ device = "up"
  /\ events = <<>>

concurrentFrame ==
  <<chat, inputVars, pc, coreVars, validations, channel, device, events>>

\* line 334
CConstruct(i) ==
  /\ sessions.inv[i].pc = "new"
  /\ sessions' =
       [inv |-> [sessions.inv EXCEPT ![i].pc = "connect",
                                     ![i].client = NewClient(i)],
        clients |-> [sessions.clients EXCEPT ![NewClient(i)] = FreshClient]]
  /\ UNCHANGED concurrentFrame

\* lines 336 and 360-361
CConnect(i) ==
  /\ sessions.inv[i].pc = "connect"
  /\ \E ok \in BOOLEAN :
       sessions' =
         IF ok
         THEN [inv |-> [sessions.inv EXCEPT ![i].pc = "batch"],
               clients |-> [sessions.clients EXCEPT
                              ![sessions.inv[i].client] = ConnectedClient]]
         ELSE [sessions EXCEPT !.inv[i].pc = "raised"]
  /\ UNCHANGED concurrentFrame

\* one execute_command of lines 237, 251 or 261, and the append that follows
CCommand(i) ==
  /\ sessions.inv[i].pc = "batch"
  /\ sessions.inv[i].step <= Len(Plan(sessions.inv[i].type, sessions.inv[i].cmds))
  /\ \E out \in ConcurrentOutputs :
       LET me == sessions.inv[i]
           result == ExecuteCommandOf(sessions.clients[me.client],
                                      Plan(me.type, me.cmds)[me.step], out)
       IN sessions' =
            [sessions EXCEPT
               !.inv[i].results = Append(me.results, result),
               !.inv[i].outs = Append(me.outs, out),
               !.inv[i].step = NextStep(me.type, me.cmds, me.step, result)]
  /\ UNCHANGED concurrentFrame

\* lines 344-359: the text is built and the finally clause disconnects
CDisconnect(i) ==
  /\ sessions.inv[i].pc = "batch"
  /\ sessions.inv[i].step > Len(Plan(sessions.inv[i].type, sessions.inv[i].cmds))
  /\ sessions' =
       [inv |-> [sessions.inv EXCEPT ![i].pc = "returned"],
        clients |-> [sessions.clients EXCEPT
                       ![sessions.inv[i].client] = FreshClient]]
  /\ UNCHANGED concurrentFrame

NextConcurrent ==
  \E i \in Invocations :
    \/ CConstruct(i)
    \/ CConnect(i)
    \/ CCommand(i)
    \/ CDisconnect(i)

SpecConcurrent == InitConcurrent /\ [][NextConcurrent]_vars

\* the results a run of one invocation on its own gives for the answers outs
RECURSIVE SoloResults(_, _, _, _)
SoloResults(type, cmds, outs, k) ==
  IF outs = <<>> THEN <<>>
  ELSE <<ExecuteCommandOf(ConnectedClient, Plan(type, cmds)[k], Head(outs))>>
         \o SoloResults(type, cmds, Tail(outs),
                        NextStep(type, cmds, k,
                                 ExecuteCommandOf(ConnectedClient,
                                                  Plan(type, cmds)[k], Head(outs))))

\* every invocation that has constructed its client holds one no other holds,
\* and its results are those of a run on its own with the same answers
OwnSession ==
  /\ \A i, j \in Invocations :
       (i # j /\ sessions.inv[i].client # 0 /\ sessions.inv[j].client # 0)
         => sessions.inv[i].client # sessions.inv[j].client
  /\ \A i \in Invocations :
       /\ sessions.inv[i].results
            = SoloResults(sessions.inv[i].type, sessions.inv[i].cmds,
                          sessions.inv[i].outs, 1)
       /\ sessions.inv[i].pc = "batch" =>
            sessions.clients[sessions.inv[i].client] = ConnectedClient

\* a step of one invocation leaves every other invocation and every other
\* invocation's client as they were
StepIsLocal ==
  \E i \in Invocations :
    \A j \in Invocations :
      j # i =>
        /\ sessions'.inv[j] = sessions.inv[j]
        /\ sessions.inv[j].client # 0 =>
             sessions'.clients[sessions.inv[j].client]
               = sessions.clients[sessions.inv[j].client]

(***************************************************************************)
(* C23: concurrent invocations of execute_commands_ssh each create and own *)
(* their own SSHClient; no client, stream handle or other mutable state is *)
(* shared, so what one invocation records does not depend on how its steps *)
(* interleave with another's.                                              *)
(***************************************************************************)
C23_SessionsIndependent ==
  /\ []OwnSession
  /\ [][StepIsLocal]_vars

\* one invocation has disconnected while the other is still in its batch and
\* goes on to record a successful command
C23_Witness ==
  \E i, j \in Invocations :
    /\ i # j
    /\ sessions.inv[i].pc = "returned"
    /\ sessions.inv[j].pc = "batch"
    /\ sessions.inv[j].results # <<>>
    /\ sessions.inv[j].results[Len(sessions.inv[j].results)].success
    /\ sessions.inv[i].results # <<>>

\* the position of the first failed result of the report
FirstFailedIdx ==
  CHOOSE i \in DOMAIN report.results :
    /\ ~ report.results[i].success
    /\ \A j \in 1..(i - 1) : report.results[j].success

(***************************************************************************)
(* C31: when execute_commands returns on its normal path with success      *)
(* false, the results hold at least one failed result and the first failed *)
(* one was recorded in the entry or the main phase; the failure string of  *)
(* execute_commands_ssh names that command, never one that failed only in  *)
(* the exit phase.                                                         *)
(***************************************************************************)
C31_FirstFailureBeforeExit ==
  (report.kind = "normal" /\ ~ report.success) =>
    /\ \E i \in DOMAIN report.results : ~ report.results[i].success
    /\ attempted[FirstFailedIdx].phase \in {"entry", "main"}
    /\ \A i \in PhaseIdx("exit") : FirstFailedIdx < i
    /\ pc \in {"finally", "returned"} =>
         /\ retval.kind = "command_error"
         /\ retval.first.command = attempted[FirstFailedIdx].command

\* a main command and an exit command failed; the main command is named
C31_Witness ==
  /\ pc = "returned"
  /\ report.kind = "normal"
  /\ ~ report.success
  /\ FailedIdx("main") # {}
  /\ FailedIdx("exit") # {}
  /\ FailedIdx("entry") = {}
  /\ retval.kind = "command_error"
  /\ retval.first.command = "vlan 10"

(***************************************************************************)
(* The SSHClient object in the hands of a caller that constructs clients   *)
(* and calls connect(), execute_command() and disconnect() in any order    *)
(* (lines 15-98 and 167-208)                                               *)
(***************************************************************************)
MaxClients == 2

MaxConnects == 2

MaxClientCalls == 3

\* the password and key_filename arguments of __init__ (lines 19-20)
ClientPasswords == {None, "", "secret"}

KeyFiles == {None, "", "id_rsa"}

\* Python's truth value of an Optional[str]: None and '' are false
Falsy(x) == x = None \/ x = ""

\* variant: the key file is preferred when both credentials are given
ConnectKwargsKeyFirst(pw, key) ==
  IF ~ Falsy(key)
  THEN [raises |-> FALSE, password |-> None, client_keys |-> <<key>>]
  ELSE IF ~ Falsy(pw)
  THEN [raises |-> FALSE, password |-> pw, client_keys |-> <<>>]
  ELSE [raises |-> TRUE, password |-> None, client_keys |-> <<>>]

\* lines 54-67: the credentials put into connect_kwargs, or the ValueError;
\* password None and client_keys <<>> stand for a key that is not in the dict
ConnectKwargs(pw, key) ==
  IF ~ Falsy(pw)
  THEN [raises |-> FALSE, password |-> pw, client_keys |-> <<>>]
  ELSE IF ~ Falsy(key)
  THEN [raises |-> FALSE, password |-> None, client_keys |-> <<key>>]
  ELSE [raises |-> TRUE, password |-> None, client_keys |-> <<>>]

NoKwargs == [raises |-> FALSE, password |-> None, client_keys |-> <<>>]

\* an entry of the history of one caller's lifecycle calls
ClientEvent(op, stage, kwargs, attempts) ==
  [op |-> op, stage |-> stage, kwargs |-> kwargs, attempts |-> attempts,
   password |-> password, key_filename |-> key_filename]

OpEvents(ev, op) == {i \in DOMAIN ev : ev[i].op = op}

\* the last position of the history that satisfies Test, 0 when none does
LastEvent(ev, Test(_)) ==
  IF \E i \in DOMAIN ev : Test(ev[i])
  THEN CHOOSE i \in DOMAIN ev :
         /\ Test(ev[i])
         /\ \A j \in DOMAIN ev : Test(ev[j]) => j <= i
  ELSE 0

\* where the current client stands: "new" after construction, "connect_failed"
\* when connect() stopped before open_session returned, "disconnected" after a
\* completed disconnect(), "channel" once a channel was opened and not yet
\* given up
Lifecycle(ev) ==
  LET made == LastEvent(ev, LAMBDA e : e.op = "construct")
      gone == LastEvent(ev, LAMBDA e : e.op = "disconnect" /\ e.stage = "done")
      chan == LastEvent(ev, LAMBDA e : e.op = "connect" /\ e.stage \in {"warmup", "ok"})
      fail == LastEvent(ev, LAMBDA e : e.op = "connect"
                                       /\ e.stage \in {"creds", "connect", "session"})
  IN IF chan > made /\ chan > gone THEN "channel"
     ELSE IF fail > made /\ fail > gone THEN "connect_failed"
     ELSE IF gone > made THEN "disconnected"
     ELSE "new"

\* the outcomes the calls of one caller are run against
ClientOutcomes ==
  {[fault |-> "none", out |-> OutPrompt], [fault |-> "none", out |-> OutRejected],
   WriteFault}

\* lines 35-44: the fields of a client that was just constructed, and the
\* histories of a caller that has called nothing yet
NewClientState ==
  /\ device_type_str = CISCO_IOS
  /\ commands = <<>>
  /\ pc = "client"
  /\ device_type_enum = CISCO_IOS
  /\ logEvents = 0
  /\ connection = None
  /\ stdin = None
  /\ stdout = None
  /\ transport = "absent"
  /\ connectCalls = 0
  /\ closeCalls = 0
  /\ disconnectCalls = 0
  /\ config_mode_commands = <<>>
  /\ main_commands = <<>>
  /\ exit_commands = <<>>
  /\ idx = 1
  /\ results = <<>>
  /\ all_success = TRUE
  /\ attempted = <<>>
  /\ written = <<>>
  /\ report = NoReport
  /\ pending = None
  /\ retval = NoValue
  /\ chat = NoChat
  /\ validations = <<>>
  /\ channel = <<>>
  /\ device = "up"
  /\ events = <<>>
  /\ sessions = <<>>

\* a client constructed as execute_commands_ssh does (line 334): no key file
InitClient ==
  /\ password \in Passwords
  /\ key_filename = None
  /\ NewClientState

\* a client constructed with any combination of the two credentials
InitConnect ==
  /\ password \in ClientPasswords
  /\ key_filename \in KeyFiles
  /\ NewClientState

clientFrame ==
  <<chat, validations, channel, device, sessions, device_type_str, commands, pc, device_type_enum,
    logEvents, config_mode_commands, main_commands, exit_commands, idx,
    all_success, report, pending>>

\* SSHClient.__init__, lines 35-44: another client object replaces the one
\* the caller held
ClientConstruct ==
  /\ pc = "client"
  /\ Cardinality(OpEvents(events, "construct")) + 1 < MaxClients
  /\ password' \in ClientPasswords
  /\ key_filename' \in KeyFiles
  /\ connection' = None
  /\ stdin' = None
  /\ stdout' = None
  /\ transport' = "absent"
  /\ events' = Append(events, [op |-> "construct", stage |-> "done",
                               kwargs |-> NoKwargs, attempts |-> 0,
                               password |-> password', key_filename |-> key_filename'])
  /\ retval' = NoValue
  /\ UNCHANGED <<clientFrame, connectCalls, closeCalls, disconnectCalls, results,
                 attempted, written>>

\* connect(), lines 53-86, as a caller of the class sees it: the value
\* returned, the fields set on the way and the asyncssh.connect attempts
ClientConnect ==
  /\ pc = "client"
  /\ Cardinality(OpEvents(events, "connect")) < MaxConnects
  /\ \E stage \in (IF ConnectKwargs(password, key_filename).raises
                   THEN {"creds"}
                   ELSE {"connect", "session", "warmup", "ok"}) :
       /\ connectCalls' = IF stage = "creds" THEN connectCalls ELSE connectCalls + 1
       /\ connection' = IF stage \in {"session", "warmup", "ok"} THEN "conn" ELSE connection
       /\ transport' = IF stage \in {"session", "warmup", "ok"} THEN "open" ELSE transport
       /\ stdin' = IF stage \in {"warmup", "ok"} THEN "writer" ELSE stdin
       /\ stdout' = IF stage \in {"warmup", "ok"} THEN "reader" ELSE stdout
       /\ events' = Append(events,
                           ClientEvent("connect", stage,
                                       ConnectKwargs(password, key_filename),
                                       IF stage = "creds" THEN 0 ELSE 1))
       /\ retval' = [kind |-> "return", value |-> stage = "ok"]
  /\ UNCHANGED <<clientFrame, password, key_filename, closeCalls, disconnectCalls,
                 results, attempted, written>>

\* execute_command(), lines 167-208, called whatever the client's state is
ClientCommand ==
  /\ pc = "client"
  /\ Len(results) < MaxClientCalls
  /\ \E cmd \in DirectCommands, o \in ClientOutcomes :
       /\ results' = Append(results, ExecuteCommand(cmd, o))
       /\ attempted' = Append(attempted,
                              [phase |-> "direct", command |-> cmd,
                               lifecycle |-> Lifecycle(events),
                               wrote |-> CommandWritten(o)])
       /\ written' = IF CommandWritten(o) THEN Append(written, cmd) ELSE written
  /\ retval' = [kind |-> "return", value |-> TRUE]
  /\ UNCHANGED <<clientFrame, password, key_filename, clientVars, disconnectCalls,
                 events>>

\* disconnect(), lines 88-98; wait_closed (line 94) may raise, and then the
\* four fields keep their values
ClientDisconnect ==
  /\ pc = "client"
  /\ disconnectCalls < MaxDisconnects
  /\ disconnectCalls' = disconnectCalls + 1
  /\ closeCalls' = IF ClosesTransport(connection) THEN closeCalls + 1 ELSE closeCalls
  /\ transport' = IF ClosesTransport(connection) THEN "closed" ELSE transport
  /\ \E waitRaises \in (IF ClosesTransport(connection) THEN BOOLEAN ELSE {FALSE}) :
       IF waitRaises
       THEN /\ events' = Append(events, ClientEvent("disconnect", "raised", NoKwargs, 0))
            /\ retval' = [kind |-> "raise", error |-> ErrConnectionLost]
            /\ UNCHANGED <<connection, stdin, stdout>>
       ELSE /\ events' = Append(events, ClientEvent("disconnect", "done", NoKwargs, 0))
            /\ retval' = [kind |-> "return", value |-> TRUE]
            /\ connection' = None
            /\ stdin' = None
            /\ stdout' = None
  /\ UNCHANGED <<clientFrame, password, key_filename, connectCalls, results,
                 attempted, written>>

NextClient ==
  \/ ClientConnect
  \/ ClientCommand
  \/ ClientDisconnect

SpecClient == InitClient /\ [][NextClient]_vars

\* the callers that only construct clients and connect them
NextConnect ==
  \/ ClientConstruct
  \/ ClientConnect

SpecConnect == InitConnect /\ [][NextConnect]_vars

\* the execute_command calls made while the client held no channel
DetachedCalls ==
  {i \in DOMAIN attempted :
     attempted[i].lifecycle \in {"new", "connect_failed", "disconnected"}}

(***************************************************************************)
(* C32: on a client that is not connected (never connected, connect failed *)
(* before the channel was opened, or already disconnected) execute_command *)
(* returns a failed result with empty output and a non-empty reason,       *)
(* writes nothing to any stream and never raises.                          *)
(***************************************************************************)
C32_DetachedCommandFails ==
  /\ Len(results) = Len(attempted)
  /\ \A i \in DetachedCalls :
       /\ ~ results[i].success
       /\ results[i].output = <<>>
       /\ results[i].error \notin {None, ""}
       /\ ~ attempted[i].wrote
  /\ Len(written) = Cardinality({i \in DOMAIN attempted : attempted[i].wrote})

\* one call in each of the three situations, the last after a connect() that
\* returned True and a disconnect() that completed
C32_Witness ==
  /\ Len(results) = 3
  /\ attempted[1].lifecycle = "new"
  /\ attempted[2].lifecycle = "connect_failed"
  /\ attempted[3].lifecycle = "disconnected"
  /\ \E i \in OpEvents(events, "connect") : events[i].stage = "ok"
  /\ \E i \in OpEvents(events, "connect") : events[i].stage = "session"
  /\ written = <<>>

(***************************************************************************)
(* C33: the report's total_commands equals the length of the caller's      *)
(* command list as passed in, whatever the number of entry and exit        *)
(* commands attempted, the number of caller commands skipped as duplicates *)
(* of entry commands, and whether the main phase ran at all.               *)
(***************************************************************************)
C33_TotalIsCallerListLength ==
  report.kind # "none" => report.total_commands = Len(commands)

\* a normal report whose total differs from the number of commands attempted
\* and from the number of caller commands run: a duplicate was skipped
C33_Witness ==
  /\ report.kind = "normal"
  /\ report.total_commands = Len(commands)
  /\ WithoutEntryCommands(commands) # commands
  /\ Cardinality(PhaseIdx("main")) < report.total_commands
  /\ PhaseIdx("main") # {}
  /\ Len(report.results) > report.total_commands

\* the connect() calls of the history
ConnectEvents == OpEvents(events, "connect")

(***************************************************************************)
(* C34: connect() on a client with neither a non-empty password nor a key  *)
(* file returns False without attempting any transport connection; when    *)
(* both are given the password is used and the key is ignored.             *)
(***************************************************************************)
C34_CredentialChoice ==
  /\ \A i \in ConnectEvents :
       /\ (Falsy(events[i].password) /\ Falsy(events[i].key_filename)) =>
            /\ events[i].stage = "creds"
            /\ events[i].attempts = 0
       /\ (~ Falsy(events[i].password) /\ ~ Falsy(events[i].key_filename)) =>
            /\ events[i].attempts = 1
            /\ events[i].kwargs.password = events[i].password
            /\ events[i].kwargs.client_keys = <<>>
  /\ connectCalls = Cardinality({i \in ConnectEvents : events[i].attempts = 1})
  /\ (ConnectEvents # {} /\ events[Len(events)].op = "connect") =>
       (retval.value <=> events[Len(events)].stage = "ok")

\* one client with an empty password and no key was refused without a
\* transport attempt, another with both credentials connected by password
C34_Witness ==
  /\ Len(events) = 3
  /\ events[1].op = "connect"
  /\ events[1].password = ""
  /\ events[1].key_filename = None
  /\ events[1].stage = "creds"
  /\ events[3].op = "connect"
  /\ events[3].password = "secret"
  /\ events[3].key_filename = "id_rsa"
  /\ events[3].stage = "ok"
  /\ connectCalls = 1
  /\ retval.value

\* chat_endpoint has handed commands to execute_tool (line 201)
ChatSentCommands == pc # "not_called" \/ chat.exec_request # NoExecRequest

(***************************************************************************)
(* C35: the chat endpoint sends commands for execution on a device only    *)
(* when a configuration keyword was detected, the device type, device      *)
(* address, username and password are all present and at least one command *)
(* was extracted; in every other case it returns without opening any       *)
(* device session.                                                         *)
(***************************************************************************)
C35_ExecutionPreconditions ==
  /\ ChatSentCommands =>
       /\ NeedsConfigAction(chat.query)
       /\ chat.device_type # <<>>
       /\ chat.device_ip # ""
       /\ chat.username # ""
       /\ chat.password # ""
       /\ chat.suggested_commands # <<>>
       /\ commands = chat.suggested_commands
       /\ chat.pc \in {"executing", "done"}
  /\ (chat.pc = "done"
      /\ chat.response \notin {"execution_error", "model_confirmation"}) =>
       /\ ~ ChatSentCommands
       /\ connectCalls = 0
       /\ transport = "absent"

\* a request with every precondition met was executed and answered
C35_Witness ==
  /\ chat.pc = "done"
  /\ chat.response = "model_confirmation"
  /\ pc = "resolve"
  /\ NeedsConfigAction(chat.query)
  /\ chat.device_type = CISCO_IOS
  /\ chat.password = "given"
  /\ commands # <<>>

====
